---- MODULE Spec2Model ----
(***************************************************************************)
(* Model of the placeholder substitution engine, the concept-ID flattening *)
(* and the placeholder derivation of mercurius-mcp-py.                      *)
(*                                                                         *)
(* Text.  A Python str is modelled as a sequence of lexical atoms.  Each   *)
(* atom is a TLA+ string standing for exactly that run of characters       *)
(* ("PLACEHOLDER_", "SELECT", " ", "(", "101", ...).  Every atom is either *)
(* made of word characters only ([A-Za-z0-9_]) or is a single non-word     *)
(* character, and no atom's text occurs inside, or straddles, the text of  *)
(* other atoms, so that substring search, str.replace and the regular      *)
(* expression PLACEHOLDER_[\w_]+ computed on atom sequences are the ones   *)
(* Python computes on the characters.                                      *)
(***************************************************************************)
EXTENDS Integers, Sequences, FiniteSets, TLC

VARIABLES
    pc,                   \* position of the modelled call: "call" or "done"
    sql_query,            \* finalize_sql_tool argument
    placeholder_mappings, \* finalize_sql_tool argument (the registry)
    sql_dialect,          \* finalize_sql_tool argument
    result,               \* the dict finalize_sql_tool returned
    concept_ids,          \* flatten_concept_ids argument
    flattened,            \* flatten_concept_ids result
    main_extraction,      \* step1_extraction of the main CQL: valuesets, codes
    main_omop,            \* step3_omop_mapping of the main CQL: the mapped rows
    tool2_result,         \* what extract_valuesets_with_omop_tool returned
    library_files,        \* extract_valuesets_with_omop_tool argument: the libraries
    entry,                \* the pipeline entry point exercised, "none" when idle
    request,              \* the arguments of one translation request
    state,                \* WorkflowState / the locals of the translate tool
    stages,               \* the stages started so far, in the order they started
    translate_result,     \* what the translation request returned
    cql_query,            \* argument of the regex extractors
    extracted,            \* what the regex extractor returned, or that it raised
    value_set_ids,        \* retrieve_multiple_value_sets argument
    concurrency,          \* retrieve_multiple_value_sets argument
    vsac,                 \* what VSAC answers for each OID, and the service's cache
    batch_start,          \* retrieve_multiple_value_sets: i of the batch loop
    tasks,                \* the fetch_single tasks of the whole call, by position
    results,              \* retrieve_multiple_value_sets: the results dict
    database,             \* what the database does with each statement of the mapper
    mapping,              \* map_concepts_to_omop_database: position, locals, outcome
    connection,           \* the mapper's database connection (and pool)
    staging_table,        \* the mapper's temporary table in the database session
    validated,            \* validate_generated_sql_tool: arguments and return value
    heartbeat_task,       \* the heartbeat task of a translation request
    heartbeats            \* progress reports sent by the heartbeat task

\* The variables of a translation request and of the regex extractors
pipelineVars == <<entry, request, state, stages, translate_result>>

extractorVars == <<cql_query, extracted>>

\* The variables of the multi-OID fetch, of the Concept Mapper, of the
\* validation tool and of the heartbeat
fetchVars == <<value_set_ids, concurrency, vsac, batch_start, tasks, results>>

mapperVars == <<database, mapping, connection, staging_table>>

heartbeatVars == <<heartbeat_task, heartbeats>>

serviceVars == <<fetchVars, mapperVars, validated>>

vars == <<pc, sql_query, placeholder_mappings, sql_dialect, result,
          concept_ids, flattened, main_extraction, main_omop, tool2_result,
          library_files, entry, request, state, stages, translate_result,
          cql_query, extracted, value_set_ids, concurrency, vsac, batch_start,
          tasks, results, database, mapping, connection, staging_table, validated,
          heartbeat_task, heartbeats>>

(***************************************************************************)
(* Python str primitives on atom sequences                                 *)
(***************************************************************************)

\* Atoms made of word characters (\w): they extend a PLACEHOLDER_ token.
WordAtoms ==
    {"Common", "COMMON", "Shared", "SHARED", "PLACEHOLDER_", "X", "_Y", "Z", "DIABETES", "1", "2", "3", "101", "102",
     "NULL", "IN", "SELECT", "value", "FROM", "VALUES", "AS", "t", "WHERE",
     "concept_id", "AND",
     "_", "16", "840", "LOINC", "loinc", "ICD", "10", "CM", "8462", "4", "E11", "9"}

IsWord(a) == a \in WordAtoms

\* s[i:] in Python, i 1-based here
Drop(s, n) == SubSeq(s, n + 1, Len(s))

Take(s, n) == SubSeq(s, 1, n)

\* s.startswith(p)
StartsWith(s, p) == Len(p) <= Len(s) /\ Take(s, Len(p)) = p

\* s.endswith(p)
EndsWith(s, p) == Len(p) <= Len(s) /\ SubSeq(s, Len(s) - Len(p) + 1, Len(s)) = p

\* p in s
Contains(s, p) == \E i \in 0..(Len(s) - Len(p)) : StartsWith(Drop(s, i), p)

\* s.replace(p, r): every non-overlapping occurrence, scanning left to right
RECURSIVE Replace(_, _, _)
Replace(s, p, r) ==
    IF Len(s) = 0 \/ Len(p) = 0 THEN s
    ELSE IF StartsWith(s, p) THEN r \o Replace(Drop(s, Len(p)), p, r)
    ELSE <<Head(s)>> \o Replace(Tail(s), p, r)

\* s.strip(): whitespace removed at both ends
RECURSIVE LStrip(_)
LStrip(s) == IF Len(s) > 0 /\ Head(s) = " " THEN LStrip(Tail(s)) ELSE s

RECURSIVE RStrip(_)
RStrip(s) == IF Len(s) > 0 /\ s[Len(s)] = " " THEN RStrip(Take(s, Len(s) - 1)) ELSE s

Strip(s) == RStrip(LStrip(s))

\* s.split(','): the pieces between commas, empty pieces included
RECURSIVE SplitComma(_, _)
SplitComma(s, cur) ==
    IF Len(s) = 0 THEN <<cur>>
    ELSE IF Head(s) = "," THEN <<cur>> \o SplitComma(Tail(s), <<>>)
    ELSE SplitComma(Tail(s), Append(cur, Head(s)))

\* sep.join(items)
RECURSIVE Join(_, _)
Join(items, sep) ==
    IF Len(items) = 0 THEN <<>>
    ELSE IF Len(items) = 1 THEN items[1]
    ELSE items[1] \o sep \o Join(Tail(items), sep)

\* Length of the maximal run of word atoms at the head of s
RECURSIVE WordRun(_)
WordRun(s) == IF Len(s) > 0 /\ IsWord(Head(s)) THEN 1 + WordRun(Tail(s)) ELSE 0

\* re.findall(r'PLACEHOLDER_[\w_]+', s): the matches in textual order
RECURSIVE FindAll(_)
FindAll(s) ==
    IF Len(s) = 0 THEN <<>>
    ELSE IF Head(s) = "PLACEHOLDER_" /\ WordRun(Tail(s)) > 0
         THEN <<Take(s, 1 + WordRun(Tail(s)))>> \o FindAll(Drop(s, 1 + WordRun(Tail(s))))
         ELSE FindAll(Tail(s))

Range(s) == {s[i] : i \in 1..Len(s)}

(***************************************************************************)
(* flatten_concept_ids                                                     *)
(***************************************************************************)

\* The inner loop: the stripped, non-empty pieces of the split interior
RECURSIVE CleanedParts(_)
CleanedParts(parts) ==
    IF Len(parts) = 0 THEN <<>>
    ELSE (IF Strip(Head(parts)) # <<>> THEN <<Strip(Head(parts))>> ELSE <<>>)
         \o CleanedParts(Tail(parts))

\* What one item of the list contributes
FlattenItem(item) ==
    LET item_str == Strip(item) IN
    IF StartsWith(item_str, <<"(">>) /\ EndsWith(item_str, <<")">>)
    THEN CleanedParts(SplitComma(SubSeq(item_str, 2, Len(item_str) - 1), <<>>))
    ELSE IF item_str # <<>> THEN <<item_str>> ELSE <<>>

RECURSIVE flatten_concept_ids(_)
flatten_concept_ids(ids) ==
    IF Len(ids) = 0 THEN <<>>
    ELSE FlattenItem(Head(ids)) \o flatten_concept_ids(Tail(ids))

(***************************************************************************)
(* finalize_sql_tool: the placeholder substitution engine                  *)
(***************************************************************************)

SelectValueFrom == <<"SELECT", " ", "value", " ", "FROM", " ">>

\* f"IN (SELECT value FROM {placeholder})"
subquery_pattern(placeholder) ==
    <<"IN", " ", "(">> \o SelectValueFrom \o placeholder \o <<")">>

\* f"SELECT value FROM ({placeholder})"
from_pattern1(placeholder) == SelectValueFrom \o <<"(">> \o placeholder \o <<")">>

\* f"SELECT value FROM {placeholder}"
from_pattern2(placeholder) == SelectValueFrom \o placeholder

\* f"({placeholder})"
wrapped_pattern(placeholder) == <<"(">> \o placeholder \o <<")">>

\* ", ".join(str(c) for c in flattened_ids), or "NULL" for an empty registry list
ConceptsStr(ids) ==
    IF Len(ids) > 0 THEN Join(flatten_concept_ids(ids), <<",", " ">>) ELSE <<"NULL">>

\* flattened_ids as the loop body binds it
FlattenedIds(ids) == IF Len(ids) > 0 THEN flatten_concept_ids(ids) ELSE <<>>

\* ', '.join(f"({id})" for id in flattened_ids)
ValuesList(fl) == Join([i \in 1..Len(fl) |-> <<"(">> \o fl[i] \o <<")">>], <<",", " ">>)

\* f"SELECT value FROM (VALUES {values_list}) AS t(value)"
ValuesTable(fl) ==
    SelectValueFrom \o <<"(", "VALUES", " ">> \o ValuesList(fl)
        \o <<")", " ", "AS", " ", "t", "(", "value", ")">>

\* Pattern 1: IN (SELECT value FROM PLACEHOLDER_...)
ApplyPattern1(sql, placeholder, ids, dialect) ==
    IF Contains(sql, subquery_pattern(placeholder))
    THEN [sql |-> Replace(sql, subquery_pattern(placeholder),
                     IF dialect = "sqlserver" /\ Len(FlattenedIds(ids)) > 0
                     THEN <<"IN", " ", "(">> \o ValuesTable(FlattenedIds(ids)) \o <<")">>
                     ELSE <<"IN", " ", "(">> \o ConceptsStr(ids) \o <<")">>),
          replaced |-> TRUE]
    ELSE [sql |-> sql, replaced |-> FALSE]

\* One turn of the Pattern 2 loop over [from_pattern1, from_pattern2]
ApplyFromPattern(st, from_pattern, ids, dialect) ==
    IF Contains(st.sql, from_pattern)
    THEN [sql |-> Replace(st.sql, from_pattern,
                     IF dialect = "sqlserver" /\ Len(FlattenedIds(ids)) > 0
                     THEN ValuesTable(FlattenedIds(ids))
                     ELSE ConceptsStr(ids)),
          replaced |-> TRUE]
    ELSE st

\* Pattern 2: SELECT value FROM (PLACEHOLDER_...), then SELECT value FROM PLACEHOLDER_...
ApplyPattern2(st, placeholder, ids, dialect) ==
    ApplyFromPattern(ApplyFromPattern(st, from_pattern1(placeholder), ids, dialect),
                     from_pattern2(placeholder), ids, dialect)

\* Pattern 3: (PLACEHOLDER_NAME), tried only if nothing was replaced so far
ApplyPattern3(st, placeholder, ids) ==
    IF ~st.replaced /\ Contains(st.sql, wrapped_pattern(placeholder))
    THEN [sql |-> Replace(st.sql, wrapped_pattern(placeholder),
                          <<"(">> \o ConceptsStr(ids) \o <<")">>),
          replaced |-> TRUE]
    ELSE st

\* Pattern 4: the bare token, tried only if nothing was replaced so far
ApplyPattern4(st, placeholder, ids) ==
    IF ~st.replaced /\ Contains(st.sql, placeholder)
    THEN [st EXCEPT !.sql = Replace(st.sql, placeholder, <<"(">> \o ConceptsStr(ids) \o <<")">>)]
    ELSE st

\* The body of `for placeholder in unique_placeholders` for one token
ProcessPlaceholder(loop, placeholder, mappings, dialect) ==
    IF placeholder \in DOMAIN mappings
    THEN LET ids == mappings[placeholder]
             s1  == ApplyPattern1(loop.final_sql, placeholder, ids, dialect)
             s2  == ApplyPattern2(s1, placeholder, ids, dialect)
             s3  == ApplyPattern3(s2, placeholder, ids)
             s4  == ApplyPattern4(s3, placeholder, ids)
         IN [final_sql |-> s4.sql,
             replacements_made |-> loop.replacements_made + 1,
             unmapped_placeholders |-> loop.unmapped_placeholders]
    ELSE [loop EXCEPT !.unmapped_placeholders = Append(@, placeholder)]

\* The whole loop, the tokens taken in the order the set iteration yields them
RECURSIVE ReplaceLoop(_, _, _, _)
ReplaceLoop(loop, order, mappings, dialect) ==
    IF Len(order) = 0 THEN loop
    ELSE ReplaceLoop(ProcessPlaceholder(loop, Head(order), mappings, dialect),
                     Tail(order), mappings, dialect)

\* set(placeholders_in_sql)
UniquePlaceholders(sql) == Range(FindAll(sql))

\* The orders in which a Python set of the tokens can be iterated
IterationOrders(S) == {o \in [1..Cardinality(S) -> S] : Range(o) = S}

\* The early returns: {"success": False, "error": ..., "step": "finalize_sql"}
ErrorResult(msg) ==
    [keys |-> {"success", "error", "step"}, success |-> FALSE, error |-> msg,
     final_sql |-> <<>>, replacements_made |-> 0,
     unmapped_placeholders |-> <<>>, remaining_placeholders |-> <<>>]

\* finalize_sql_tool(sql_query, placeholder_mappings, sql_dialect) when the set of
\* discovered tokens is iterated in `order`
FinalizeSql(sql, mappings, dialect, order) ==
    IF sql = <<>> THEN ErrorResult("No SQL query provided")
    ELSE IF DOMAIN mappings = {} THEN ErrorResult("No placeholder mappings provided")
    ELSE LET loop == ReplaceLoop([final_sql |-> sql, replacements_made |-> 0,
                                  unmapped_placeholders |-> <<>>],
                                 order, mappings, dialect)
             remaining == FindAll(loop.final_sql)
         IN [keys |-> {"success", "final_sql", "original_sql", "replacements_made",
                       "unmapped_placeholders", "remaining_placeholders", "statistics"},
             success |-> (Len(remaining) = 0),
             error |-> "",
             final_sql |-> loop.final_sql,
             replacements_made |-> loop.replacements_made,
             unmapped_placeholders |-> loop.unmapped_placeholders,
             remaining_placeholders |-> remaining]

(***************************************************************************)
(* Inputs of the substitution engine                                       *)
(***************************************************************************)

\* Most surface-form fragments in one SQL text
MaxFrags == 2

PX  == <<"PLACEHOLDER_", "X">>
PXY == <<"PLACEHOLDER_", "X", "_Y">>
PZ  == <<"PLACEHOLDER_", "Z">>
PD  == <<"PLACEHOLDER_", "DIABETES">>

Tokens == {PX, PXY, PZ}

\* The surface forms a token takes in generated SQL
Fragments ==
    UNION {{subquery_pattern(p), from_pattern1(p), from_pattern2(p),
            wrapped_pattern(p), p} : p \in Tokens}

\* WHERE concept_id IN (PLACEHOLDER_DIABETES)
DiabetesSql ==
    <<"WHERE", " ", "concept_id", " ", "IN", " ">> \o wrapped_pattern(PD)

\* SQL texts: up to MaxFrags fragments separated by one blank
SqlTexts ==
    {Join(fs, <<" ">>) : fs \in UNION {[1..n -> Fragments] : n \in 0..MaxFrags}}

\* Registry values: concept-ID lists as earlier stages (or a caller) leave them
IdLists ==
    { <<>>,
      << <<"1">>, <<"(", "2", ",", " ", "3", ")">> >>,
      << <<"(", ")">> >> }

Registries == UNION {[D -> IdLists] : D \in SUBSET Tokens}

Dialects == {"postgresql", "sqlserver"}

NoResult ==
    [keys |-> {}, success |-> FALSE, error |-> "", final_sql |-> <<>>,
     replacements_made |-> 0, unmapped_placeholders |-> <<>>,
     remaining_placeholders |-> <<>>]

\* The variables of the other operations while one operation is exercised
FlattenIdle == concept_ids = <<>> /\ flattened = <<>>

NoExtraction == [valuesets |-> <<>>, codes |-> <<>>]

NoTool2Result ==
    [success |-> FALSE, error |-> "", all_valuesets |-> <<>>,
     placeholder_mappings |-> <<>>, individual_codes |-> <<>>]

RegistryIdle ==
    /\ main_extraction = NoExtraction
    /\ main_omop = <<>>
    /\ tool2_result = NoTool2Result
    /\ library_files = <<>>

PipelineIdle ==
    /\ entry = "none"
    /\ request = <<>>
    /\ state = <<>>
    /\ stages = <<>>
    /\ translate_result = <<>>

ExtractorIdle == cql_query = <<>> /\ extracted = <<>>

FetchIdle ==
    /\ value_set_ids = <<>>
    /\ concurrency = 3
    /\ vsac = <<>>
    /\ batch_start = 0
    /\ tasks = <<>>
    /\ results = <<>>

MapperIdle ==
    /\ database = <<>>
    /\ mapping = <<>>
    /\ connection = "none"
    /\ staging_table = "none"

ValidatorIdle == validated = <<>>

HeartbeatIdle == heartbeat_task = "none" /\ heartbeats = 0

ServiceIdle == FetchIdle /\ MapperIdle /\ ValidatorIdle

SubstitutionIdle ==
    /\ sql_query = <<>>
    /\ placeholder_mappings = <<>>
    /\ sql_dialect = "postgresql"
    /\ result = NoResult

Init ==
    /\ pc = "call"
    /\ \/ /\ sql_query \in SqlTexts
          /\ placeholder_mappings \in Registries
       \/ /\ sql_query = DiabetesSql
          /\ placeholder_mappings = (PD :> << <<"101">>, <<"102">> >>)
    /\ sql_dialect \in Dialects
    /\ result = NoResult
    /\ FlattenIdle
    /\ RegistryIdle
    /\ PipelineIdle
    /\ ExtractorIdle
    /\ ServiceIdle
    /\ HeartbeatIdle

\* One call of finalize_sql_tool; the iteration order of the token set is not
\* fixed by the language (string hashing is randomised per process)
finalize_sql_tool ==
    /\ pc = "call"
    /\ \E order \in IterationOrders(UniquePlaceholders(sql_query)) :
          result' = FinalizeSql(sql_query, placeholder_mappings, sql_dialect, order)
    /\ pc' = "done"
    /\ UNCHANGED <<sql_query, placeholder_mappings, sql_dialect,
                   concept_ids, flattened, main_extraction, main_omop, tool2_result,
                   library_files, pipelineVars, extractorVars,
                   serviceVars, heartbeatVars>>

Next == finalize_sql_tool

Spec == Init /\ [][Next]_vars

(***************************************************************************)
(* Claims about the substitution engine (specification Spec)               *)
(***************************************************************************)

Done == pc = "done"

\* The tokens of a text, as the discovery scan reports them
TokensIn(sql) == Range(FindAll(sql))

\* Discovered tokens that are keys of the registry / that are not
MappedTokens == TokensIn(sql_query) \cap DOMAIN placeholder_mappings

UnmappedTokens == TokensIn(sql_query) \ DOMAIN placeholder_mappings

\* The renderings the specification prescribes for an ID list
CommaJoined(fl) == Join(fl, <<",", " ">>)

ExpectedInList(fl) == <<"IN", " ", "(">> \o CommaJoined(fl) \o <<")">>

ExpectedInValues(fl) ==
    <<"IN", " ", "(", "SELECT", " ", "value", " ", "FROM", " ", "(", "VALUES", " ">>
        \o Join([i \in 1..Len(fl) |-> <<"(", fl[i][1], ")">>], <<",", " ">>)
        \o <<")", " ", "AS", " ", "t", "(", "value", ")", ")">>

\* C1: after substitute, no occurrence of a token that is a key of the registry
\* remains in final_sql, also when the token occurs in several surface forms.
C1_NoMappedTokenRemains ==
    (Done /\ "final_sql" \in result.keys)
        => \A p \in DOMAIN placeholder_mappings : p \notin TokensIn(result.final_sql)

\* C2: a token that is no key of the registry is recorded in
\* unmapped_placeholders, its text stays in final_sql, success is False, and
\* every other discovered token that is a key of the registry is replaced.
C2_UnmappedReportedOthersReplaced ==
    (Done /\ sql_query # <<>> /\ UnmappedTokens # {})
        => /\ \A u \in UnmappedTokens :
                /\ u \in Range(result.unmapped_placeholders)
                /\ u \in TokensIn(result.final_sql)
           /\ result.success = FALSE
           /\ \A p \in MappedTokens : p \notin TokensIn(result.final_sql)

\* C3: every token in unmapped_placeholders is also in remaining_placeholders,
\* so a result with success == True has an empty unmapped_placeholders list.
C3_UnmappedWithinRemaining ==
    (Done /\ "unmapped_placeholders" \in result.keys)
        => /\ Range(result.unmapped_placeholders) \subseteq Range(result.remaining_placeholders)
           /\ (result.success => result.unmapped_placeholders = <<>>)

\* C4: final_sql, unmapped_placeholders, remaining_placeholders and success do
\* not depend on the order in which the unique discovered tokens are processed.
C4_OrderIndependent ==
    Done => \A o \in IterationOrders(UniquePlaceholders(sql_query)) :
                LET r == FinalizeSql(sql_query, placeholder_mappings, sql_dialect, o)
                IN /\ r.final_sql = result.final_sql
                   /\ r.unmapped_placeholders = result.unmapped_placeholders
                   /\ r.remaining_placeholders = result.remaining_placeholders
                   /\ r.success = result.success

\* C7: an occurrence IN (SELECT value FROM TOKEN) of a token with a non-empty
\* flattened ID list becomes the VALUES form under sqlserver and the simple
\* IN (id1, id2, ...) form under every other dialect.
C7_SubqueryDialectForm ==
    (Done /\ "final_sql" \in result.keys)
        => \A p \in DOMAIN placeholder_mappings :
              LET fl == flatten_concept_ids(placeholder_mappings[p])
              IN (Len(fl) > 0 /\ Contains(sql_query, subquery_pattern(p)))
                    => IF sql_dialect = "sqlserver"
                       THEN Contains(result.final_sql, ExpectedInValues(fl))
                       ELSE Contains(result.final_sql, ExpectedInList(fl))

\* C8: when the flattened ID list of a registry-mapped token is empty, an
\* occurrence IN (SELECT value FROM TOKEN) becomes IN (NULL) in every dialect,
\* never an empty list.
C8_EmptyListIsNull ==
    (Done /\ "final_sql" \in result.keys)
        => \A p \in DOMAIN placeholder_mappings :
              (/\ Len(flatten_concept_ids(placeholder_mappings[p])) = 0
               /\ Contains(sql_query, subquery_pattern(p)))
                    => /\ Contains(result.final_sql, <<"IN", " ", "(", "NULL", ")">>)
                       /\ ~Contains(result.final_sql, <<"IN", " ", "(", ")">>)

\* An occurrence of p in sql that is neither inside a longer token nor part of
\* one of the SELECT value FROM forms: at position i, bare or as (p)
PlainOccurrence(sql, p, i) ==
    /\ StartsWith(Drop(sql, i - 1), p)
    /\ WordRun(Drop(sql, i - 1 + Len(p))) = 0
    /\ ~EndsWith(Take(sql, i - 1), SelectValueFrom)
    /\ ~EndsWith(Take(sql, i - 1), SelectValueFrom \o <<"(">>)

\* C9: a registry-mapped token occurring as (TOKEN) or bare is replaced by its
\* comma-joined IDs inside exactly one pair of parentheses; the DIABETES
\* example yields WHERE concept_id IN (101, 102), one replacement, nothing left.
C9_WrappedAndBareForms ==
    (Done /\ "final_sql" \in result.keys)
        => /\ \A p \in DOMAIN placeholder_mappings :
                LET fl == flatten_concept_ids(placeholder_mappings[p])
                IN (Len(fl) > 0 /\ \E i \in 1..Len(sql_query) : PlainOccurrence(sql_query, p, i))
                      => /\ p \notin TokensIn(result.final_sql)
                         /\ Contains(result.final_sql, <<"(">> \o CommaJoined(fl) \o <<")">>)
                         /\ ~Contains(result.final_sql, <<"(", "(">> \o CommaJoined(fl) \o <<")", ")">>)
           /\ sql_query = DiabetesSql
                => /\ result.final_sql = <<"WHERE", " ", "concept_id", " ", "IN", " ",
                                           "(", "101", ",", " ", "102", ")">>
                   /\ result.replacements_made = 1
                   /\ result.remaining_placeholders = <<>>

\* C10: every result carries final_sql; when tokens are unmapped, also with a
\* registry without entries, the partially substituted SQL is returned with
\* the unmapped_placeholders list and success False.
C10_FinalSqlAlwaysReturned ==
    (Done /\ sql_query # <<>> /\ UnmappedTokens # {})
        => /\ "final_sql" \in result.keys
           /\ "unmapped_placeholders" \in result.keys
           /\ UnmappedTokens \subseteq Range(result.unmapped_placeholders)

(***************************************************************************)
(* Concept-ID flattening as an operation (specification SpecFlatten)       *)
(***************************************************************************)

\* Most items in one concept-ID list
MaxItems == 2

\* List items: plain IDs, padded IDs, groups, empty and nested groups
IdItems ==
    { <<"1">>,
      <<" ", "2", " ">>,
      <<>>,
      <<"(", "2", ",", " ", "3", ")">>,
      <<"(", ")">>,
      <<"(", "1", ",", ",", "2", ")">>,
      <<"(", "(", "1", ")", ")">>,
      <<"(", "(", "1", ",", " ", "2", ")", ")">>,
      <<"(", "1", ")", ",", "(", "2", ")">>,
      <<"(">> }

ConceptIdLists == UNION {[1..n -> IdItems] : n \in 0..MaxItems}

InitFlatten ==
    /\ pc = "call"
    /\ concept_ids \in ConceptIdLists
    /\ flattened = <<>>
    /\ SubstitutionIdle
    /\ RegistryIdle
    /\ PipelineIdle
    /\ ExtractorIdle
    /\ ServiceIdle
    /\ HeartbeatIdle

\* One call flatten_concept_ids(concept_ids)
FlattenConceptIds ==
    /\ pc = "call"
    /\ flattened' = flatten_concept_ids(concept_ids)
    /\ pc' = "done"
    /\ UNCHANGED <<sql_query, placeholder_mappings, sql_dialect, result,
                   concept_ids, main_extraction, main_omop, tool2_result,
                   library_files, pipelineVars, extractorVars,
                   serviceVars, heartbeatVars>>

NextFlatten == FlattenConceptIds

SpecFlatten == InitFlatten /\ [][NextFlatten]_vars

\* C5: flattening is idempotent, flatten(flatten(L)) == flatten(L) for every
\* input list L, whatever parentheses and commas its elements contain.
C5_FlattenIdempotent ==
    Done => flatten_concept_ids(flattened) = flattened

(***************************************************************************)
(* Placeholder registry builder (specification SpecRegistry)               *)
(*                                                                         *)
(* OIDs, codes and coding-system names are atom sequences as above, e.g.   *)
(* "ICD-10-CM" is <<"ICD", "-", "10", "-", "CM">>.                         *)
(***************************************************************************)

\* s.replace(c, "_") for a one-character c
ReplaceChar(str, c) == [i \in 1..Len(str) |-> IF str[i] = c THEN "_" ELSE str[i]]

\* s.upper()
UpperAtom(a) ==
    CASE a = "loinc" -> "LOINC"
      [] a = "Common" -> "COMMON"
      [] a = "Shared" -> "SHARED"
      [] OTHER -> a

Upper(str) == [i \in 1..Len(str) |-> UpperAtom(str[i])]

\* f"PLACEHOLDER_{oid.replace('.', '_')}"
placeholder_oid(oid) == <<"PLACEHOLDER_">> \o ReplaceChar(oid, ".")

\* clean_code = code.replace('-', '_').replace('.', '_')
clean_code(code) == ReplaceChar(ReplaceChar(code, "-"), ".")

\* f"PLACEHOLDER_{system.upper()}_{clean_code}", in extract_valuesets_with_omop_tool
placeholder_key(system, code) ==
    <<"PLACEHOLDER_">> \o Upper(system) \o <<"_">> \o clean_code(code)

\* f"PLACEHOLDER_{code['system'].upper()}_{clean_code}", in map_vsac_to_omop_tool
placeholder_name(system, code) ==
    <<"PLACEHOLDER_">> \o Upper(system) \o <<"_">> \o clean_code(code)

\* [str(concept['concept_id']) for concept in mapped if concept_set_id == id]
RECURSIVE ConceptIdsFor(_, _)
ConceptIdsFor(mapped, id) ==
    IF Len(mapped) = 0 THEN <<>>
    ELSE (IF Head(mapped).concept_set_id = id THEN <<Head(mapped).concept_id>> ELSE <<>>)
         \o ConceptIdsFor(Tail(mapped), id)

\* dict assignment d[k] = v
DictSet(d, k, v) == (k :> v) @@ d

\* The loop over main_extraction['valuesets']
RECURSIVE ProcessValuesets(_, _, _)
ProcessValuesets(acc, valuesets, mapped) ==
    IF Len(valuesets) = 0 THEN acc
    ELSE LET vs_info == Head(valuesets)
             ids == ConceptIdsFor(mapped, vs_info.oid)
         IN ProcessValuesets(
                [acc EXCEPT
                   !.all_valuesets = DictSet(@, vs_info.oid,
                        [name |-> vs_info.name, oid |-> vs_info.oid,
                         omop_concept_ids |-> ids, concept_count |-> Len(ids),
                         source |-> "main"]),
                   !.placeholder_mappings = DictSet(@, placeholder_oid(vs_info.oid), ids)],
                Tail(valuesets), mapped)

\* The loop over main_extraction['codes']
RECURSIVE ProcessCodes(_, _, _)
ProcessCodes(acc, codes, mapped) ==
    IF Len(codes) = 0 THEN acc
    ELSE LET c == Head(codes)
             key == placeholder_key(c.system, c.code)
             ids == ConceptIdsFor(mapped, key)
         IN ProcessCodes(
                IF c.code # <<>> /\ c.system # <<>>
                THEN [acc EXCEPT
                        !.individual_codes = DictSet(@, c.system \o <<"_">> \o c.code,
                             [name |-> c.name, code |-> c.code, system |-> c.system,
                              omop_concept_ids |-> ids, placeholder |-> key]),
                        !.placeholder_mappings =
                             IF Len(ids) > 0 THEN DictSet(@, key, ids) ELSE @]
                ELSE acc,
                Tail(codes), mapped)

\* extract_valuesets_with_omop_tool on the main CQL: map_vsac_to_omop_tool fails
\* when no value-set OID was extracted, otherwise the registry is built
BuildRegistry(extraction, mapped) ==
    IF Len(extraction.valuesets) = 0
    THEN [NoTool2Result EXCEPT !.error = "No ValueSet OIDs found in CQL query"]
    ELSE ProcessCodes(
             ProcessValuesets([NoTool2Result EXCEPT !.success = TRUE],
                              extraction.valuesets, mapped),
             extraction.codes, mapped)

\* f"PLACEHOLDER_{lib_name.upper()}_{system.upper()}_{clean_code}"
library_placeholder_key(lib_name, system, code) ==
    <<"PLACEHOLDER_">> \o Upper(lib_name) \o <<"_">> \o Upper(system)
       \o <<"_">> \o clean_code(code)

\* A registry that keys every library value set by its OID
unprefixed_key(all_valuesets, lib_name, oid) == oid

\* prefixed_key = f"{lib_name}_{oid}" if oid in all_valuesets else oid
prefixed_key(all_valuesets, lib_name, oid) ==
    IF oid \in DOMAIN all_valuesets THEN lib_name \o <<"_">> \o oid ELSE oid

\* The loop over lib_extraction['valuesets']
RECURSIVE ProcessLibraryValuesets(_, _, _, _)
ProcessLibraryValuesets(acc, lib_name, valuesets, mapped) ==
    IF Len(valuesets) = 0 THEN acc
    ELSE LET vs_info == Head(valuesets)
             ids == ConceptIdsFor(mapped, vs_info.oid)
         IN ProcessLibraryValuesets(
                [acc EXCEPT
                   !.all_valuesets =
                       DictSet(@, prefixed_key(acc.all_valuesets, lib_name, vs_info.oid),
                               [name |-> vs_info.name, oid |-> vs_info.oid,
                                omop_concept_ids |-> ids, concept_count |-> Len(ids),
                                source |-> lib_name]),
                   !.placeholder_mappings = DictSet(@, placeholder_oid(vs_info.oid), ids)],
                lib_name, Tail(valuesets), mapped)

\* The loop over lib_extraction['codes']
RECURSIVE ProcessLibraryCodes(_, _, _, _)
ProcessLibraryCodes(acc, lib_name, codes, mapped) ==
    IF Len(codes) = 0 THEN acc
    ELSE LET c == Head(codes)
             key == library_placeholder_key(lib_name, c.system, c.code)
             ids == ConceptIdsFor(mapped, key)
         IN ProcessLibraryCodes(
                IF c.code # <<>> /\ c.system # <<>>
                THEN [acc EXCEPT
                        !.individual_codes =
                             DictSet(@, lib_name \o <<"_">> \o c.system \o <<"_">> \o c.code,
                                 [name |-> c.name, code |-> c.code, system |-> c.system,
                                  omop_concept_ids |-> ids, placeholder |-> key]),
                        !.placeholder_mappings =
                             IF Len(ids) > 0 THEN DictSet(@, key, ids) ELSE @]
                ELSE acc,
                lib_name, Tail(codes), mapped)

\* One round of `for lib_name, lib_content in library_files.items()`: a library
\* whose mapping failed (no OID in it, or the tool reported an error) is skipped
ProcessLibrary(acc, lib) ==
    IF ~lib.ok \/ Len(lib.extraction.valuesets) = 0 THEN acc
    ELSE ProcessLibraryCodes(
             ProcessLibraryValuesets(acc, lib.name, lib.extraction.valuesets, lib.omop),
             lib.name, lib.extraction.codes, lib.omop)

\* The loop over the libraries, in the insertion order of the dict
RECURSIVE MergeLibraries(_, _)
MergeLibraries(acc, libs) ==
    IF Len(libs) = 0 THEN acc
    ELSE MergeLibraries(ProcessLibrary(acc, Head(libs)), Tail(libs))

\* extract_valuesets_with_omop_tool: the main CQL, then the libraries
ExtractValuesetsWithOmop(extraction, mapped, libs) ==
    LET main == BuildRegistry(extraction, mapped)
    IN IF main.success THEN MergeLibraries(main, libs) ELSE main

\* The concept_set_id values map_vsac_to_omop_tool hands to the Concept Mapper:
\* the OID of each value set, the placeholder name of each individual code
ConceptSetIds(extraction) ==
    [i \in 1..Len(extraction.valuesets) |-> extraction.valuesets[i].oid]
    \o [i \in 1..Len(extraction.codes) |->
           placeholder_name(extraction.codes[i].system, extraction.codes[i].code)]

\* The OMOP concept the vocabulary holds for the i-th concept set, if any
OmopConceptIds == <<"101", "102", "1", "2">>

\* The mapped rows when the Concept Mapper finds a concept for the sets in hits;
\* map_vsac_to_omop_tool returns before any mapping when no OID was extracted
MappedRows(extraction, hits) ==
    LET ids == ConceptSetIds(extraction)
        rows == [i \in 1..Len(ids) |->
                    [concept_set_id |-> ids[i], concept_id |-> OmopConceptIds[i]]]
    IN IF Len(extraction.valuesets) = 0 THEN <<>>
       ELSE SelectSeq(rows, LAMBDA r : r.concept_set_id \in hits)

\* Most value-set declarations, and most code declarations, in the main CQL
MaxValuesets == 2

MaxCodes == 2

Oids == {<<"1", ".", "2">>, <<"2", ".", "16", ".", "840">>}

ValuesetDecls == {[name |-> n, oid |-> o] : n \in {"Diabetes", "Hypertension"}, o \in Oids}

CodeSystems == {<<"LOINC">>, <<"loinc">>, <<"ICD", "-", "10", "-", "CM">>}

CodeValues == {<<"8462", "-", "4">>, <<"E11", ".", "9">>}

CodeDecls == {[name |-> "code", code |-> c, system |-> sy] : c \in CodeValues, sy \in CodeSystems}

Extractions ==
    {[valuesets |-> v, codes |-> c] :
        v \in UNION {[1..n -> ValuesetDecls] : n \in 0..MaxValuesets},
        c \in UNION {[1..n -> CodeDecls] : n \in 0..MaxCodes}}

\* What the mapping of one library file comes to: whether the tool succeeded,
\* the individual codes the library declares, its step1_extraction (which
\* lists the value sets; whether it lists the codes is left open) and the
\* mapped rows of its step3_omop_mapping, which has a concept for every concept
\* set, the declared codes included, or for none
LibraryCodeDecl == [name |-> "code", code |-> <<"8462", "-", "4">>, system |-> <<"loinc">>]

LibraryResults(lib_name) ==
    {[name |-> lib_name, ok |-> ok, declared |-> c,
      extraction |-> [valuesets |-> v, codes |-> IF listed THEN c ELSE <<>>],
      omop |-> LET e == [valuesets |-> v, codes |-> c]
               IN MappedRows(e, IF all THEN Range(ConceptSetIds(e)) ELSE {})] :
        ok \in BOOLEAN, all \in BOOLEAN, listed \in BOOLEAN,
        v \in {<<>>} \cup {<<d>> : d \in ValuesetDecls},
        c \in {<<>>, <<LibraryCodeDecl>>}}

\* library_files: no library, one, or two
LibraryFiles ==
    {<<>>}
      \cup {<<l>> : l \in LibraryResults(<<"Common">>)}
      \cup {<<l, m>> : l \in LibraryResults(<<"Common">>),
                       m \in LibraryResults(<<"Shared">>)}

\* Main CQL documents exercised together with libraries: one value set
MainWithLibraries ==
    {[valuesets |-> <<d>>, codes |-> <<>>] : d \in ValuesetDecls}

InitRegistry ==
    /\ pc = "call"
    /\ \/ main_extraction \in Extractions /\ library_files = <<>>
       \/ main_extraction \in MainWithLibraries /\ library_files \in LibraryFiles
    /\ \E hits \in SUBSET Range(ConceptSetIds(main_extraction)) :
          main_omop = MappedRows(main_extraction, hits)
    /\ tool2_result = NoTool2Result
    /\ SubstitutionIdle
    /\ FlattenIdle
    /\ PipelineIdle
    /\ ExtractorIdle
    /\ ServiceIdle
    /\ HeartbeatIdle

\* One call of extract_valuesets_with_omop_tool
extract_valuesets_with_omop_tool ==
    /\ pc = "call"
    /\ tool2_result' = ExtractValuesetsWithOmop(main_extraction, main_omop, library_files)
    /\ pc' = "done"
    /\ UNCHANGED <<sql_query, placeholder_mappings, sql_dialect, result,
                   concept_ids, flattened, main_extraction, main_omop,
                   library_files, pipelineVars, extractorVars,
                   serviceVars, heartbeatVars>>

NextRegistry == extract_valuesets_with_omop_tool

SpecRegistry == InitRegistry /\ [][NextRegistry]_vars

\* ^PLACEHOLDER_[A-Za-z0-9_]+$
WellFormedToken(tok) ==
    /\ Len(tok) >= 2
    /\ tok[1] = "PLACEHOLDER_"
    /\ \A i \in 2..Len(tok) : IsWord(tok[i])

\* C6: every placeholder token the registry builder constructs, for every
\* value-set OID and every individual code (system, code), matches
\* ^PLACEHOLDER_[A-Za-z0-9_]+$.
C6_TokensWellFormed ==
    Done => /\ \A tok \in DOMAIN tool2_result.placeholder_mappings : WellFormedToken(tok)
            /\ \A k \in DOMAIN tool2_result.individual_codes :
                  WellFormedToken(tool2_result.individual_codes[k].placeholder)

\* The registry as it stood when the i-th library came up
RegistryBefore(i) ==
    MergeLibraries(BuildRegistry(main_extraction, main_omop),
                   SubSeq(library_files, 1, i - 1))

\* The k-th value set of the i-th library has an OID the registry already held
Collides(i, k) ==
    /\ library_files[i].ok
    /\ library_files[i].extraction.valuesets[k].oid
          \in DOMAIN RegistryBefore(i).all_valuesets

\* C17: when an included library declares an OID that is already present in
\* the registry, the library's entry is stored under the key <library>_<oid>,
\* the earlier entry for that OID is left unchanged, and both entries share
\* the same OID-derived placeholder token.
C17_LibraryCollisionPrefixed ==
    (Done /\ tool2_result.success) =>
       \A i \in 1..Len(library_files) :
          \A k \in 1..Len(library_files[i].extraction.valuesets) :
             LET lib    == library_files[i]
                 oid    == lib.extraction.valuesets[k].oid
                 key    == lib.name \o <<"_">> \o oid
                 before == RegistryBefore(i).all_valuesets
                 after  == tool2_result.all_valuesets
             IN Collides(i, k) =>
                   /\ key \in DOMAIN after
                   /\ after[key].source = lib.name
                   /\ after[key].oid = oid
                   /\ after[oid] = before[oid]
                   /\ placeholder_oid(after[key].oid) = placeholder_oid(after[oid].oid)
                   /\ placeholder_oid(oid) \in DOMAIN tool2_result.placeholder_mappings

\* A registry built from a main document and a library that declare the same
\* OID under different names
C17_Witness ==
    /\ Done
    /\ tool2_result.success
    /\ \E i \in 1..Len(library_files) :
          /\ Len(library_files[i].extraction.valuesets) = 1
          /\ Collides(i, 1)
          /\ library_files[i].extraction.valuesets[1].name
                # main_extraction.valuesets[1].name
          /\ library_files[i].extraction.valuesets[1].oid
                = main_extraction.valuesets[1].oid

(***************************************************************************)
(* The translation request: translate_cql_to_sql_complete_tool             *)
(***************************************************************************)

\* The six stages, in the order of the pipeline
StageOrder == <<"parse", "extract", "generate", "validate", "correct", "substitute">>

\* Keyword parameters the stage tools declare
ParseCqlStructureParams == {"cql_content", "cql_file_path", "config_path"}

ExtractValuesetsParams ==
    {"cql_content", "library_files", "parsed_structure", "vsac_username",
     "vsac_password", "database_user", "database_endpoint", "database_name",
     "database_password", "omop_database_schema"}

CorrectSqlErrorsParams ==
    {"sql_query", "validation_result", "parsed_structure", "sql_dialect", "config_path"}

\* Keyword arguments the translate tool passes at its call sites
Tool1Kwargs == {"cql_content", "cql_file_path", "config"}

Tool2Kwargs == ExtractValuesetsParams \cup {"library_definitions"}

Tool5Kwargs ==
    {"sql_query", "validation_result", "parsed_structure", "sql_dialect", "config"}

\* Keys of the `statistics` dict finalize_sql_tool returns
FinalizeStatisticsKeys ==
    {"placeholders_found", "placeholders_replaced", "unmapped_placeholders",
     "remaining_placeholders", "total_concept_ids_used", "sql_length_before",
     "sql_length_after"}

\* A call f(**kwargs) binds when f declares every keyword; otherwise Python
\* raises TypeError before the callee starts
Binds(kwargs, params) == kwargs \subseteq params

\* The dict of the `except Exception as e` branch: no final_sql, and `errors`
\* is the list as it stood when the exception was raised
ExceptResult(msg, errs, started) ==
    [keys |-> {"success", "error", "pipeline_results", "errors"},
     success |-> FALSE, error |-> msg, errors |-> errs, failed_at |-> "",
     final_sql |-> <<>>, valuesets_extracted |-> 0, placeholders_replaced |-> 0,
     stages |-> started, handed_sql |-> <<>>]

\* The early returns after a failed tool 1, 2 or 3
FailedAtResult(tool, errs, started) ==
    [keys |-> {"success", "pipeline_results", "errors", "failed_at"},
     success |-> FALSE, error |-> <<>>, errors |-> errs, failed_at |-> tool,
     final_sql |-> <<>>, valuesets_extracted |-> 0, placeholders_replaced |-> 0,
     stages |-> started, handed_sql |-> <<>>]

\* Tool 4 and what it leaves in `errors` and `validation_result`
AfterValidate(req, errs) ==
    IF req.validate
    THEN [ran |-> TRUE,
          errors |-> IF req.tools.t4.success THEN errs
                     ELSE Append(errs, "Validation had issues"),
          valid |-> req.tools.t4.valid]
    ELSE [ran |-> FALSE, errors |-> errs, valid |-> FALSE]

\* if correct_errors and validation_result and not validation_result.get('valid')
CorrectorCondition(req, v) == req.correct_errors /\ v.ran /\ ~v.valid

\* current_sql after tool 5
AfterCorrect(req, v) ==
    IF CorrectorCondition(req, v)
    THEN IF req.tools.t5.success /\ req.tools.t5.sql_changed
         THEN [sql |-> req.tools.t5.corrected_sql, errors |-> v.errors]
         ELSE IF req.tools.t5.success
              THEN [sql |-> req.tools.t3.sql, errors |-> v.errors]
              ELSE [sql |-> req.tools.t3.sql,
                    errors |-> Append(v.errors, "SQL correction failed")]
    ELSE [sql |-> req.tools.t3.sql, errors |-> v.errors]

\* The SQL tool 6 is called with, when the request gets that far
HandedSql(req) == AfterCorrect(req, AfterValidate(req, <<>>)).sql

\* The stages started by a request that reaches tool 6
StagesThrough(req, v, last) ==
    <<"parse", "extract", "generate">>
      \o (IF v.ran THEN <<"validate">> ELSE <<>>)
      \o (IF CorrectorCondition(req, v) /\ last # "validate" THEN <<"correct">> ELSE <<>>)
      \o (IF last = "substitute" THEN <<"substitute">> ELSE <<>>)

\* str(e) of the TypeError raised by a call that does not bind
UnexpectedKeyword(fn, kw) == <<fn, "() got an unexpected keyword argument ", kw>>

\* The return of the translate tool after all tools ran
FinalResult(req, t6, sql, errs, started) ==
    [keys |-> {"success", "final_sql", "sql_dialect", "pipeline_results",
               "statistics", "errors"},
     success |-> req.tools.t1.success /\ req.tools.t2.success
                   /\ req.tools.t3.success /\ t6.success,
     error |-> <<>>, errors |-> errs, failed_at |-> "",
     final_sql |-> IF "final_sql" \in t6.keys THEN t6.final_sql ELSE sql,
     valuesets_extracted |-> req.tools.t2.total_valuesets_extracted,
     placeholders_replaced |-> t6.replacements_made,
     stages |-> started, handed_sql |-> sql]

\* Tools 4, 5 and 6 and the compilation of the result
TranslateTail(req, order) ==
    LET v     == AfterValidate(req, <<>>)
        c     == AfterCorrect(req, v)
        t6    == FinalizeSql(c.sql, req.tools.t2.placeholder_mappings,
                             req.sql_dialect, order)
        errs6 == IF t6.success THEN c.errors
                 ELSE Append(c.errors, "Placeholder replacement failed")
        all   == StagesThrough(req, v, "substitute")
    IN IF CorrectorCondition(req, v) /\ ~Binds(Tool5Kwargs, CorrectSqlErrorsParams)
       THEN ExceptResult(UnexpectedKeyword("correct_sql_errors_tool", "config"),
                         v.errors, StagesThrough(req, v, "validate"))
       ELSE IF "statistics" \notin t6.keys
       THEN ExceptResult(<<"statistics">>, errs6, all)
       ELSE IF "replacements_made" \notin FinalizeStatisticsKeys
       THEN ExceptResult(<<"replacements_made">>, errs6, all)
       ELSE IF v.ran /\ ~req.tools.t4.issue_counts
       THEN ExceptResult(<<"issue_counts">>, errs6, all)
       ELSE FinalResult(req, t6, c.sql, errs6, all)

\* translate_cql_to_sql_complete_tool for the request `req`, whose field
\* `tools` scripts what the stage tools return, when tool 6 iterates its
\* token set in `order`
Translate(req, order) ==
    IF ~Binds(Tool1Kwargs, ParseCqlStructureParams)
    THEN ExceptResult(UnexpectedKeyword("parse_cql_structure_tool", "config"),
                      <<>>, <<>>)
    ELSE IF ~req.tools.t1.success
    THEN FailedAtResult("tool1_parse_cql_structure", <<"Parse failed">>, <<"parse">>)
    ELSE IF ~Binds(Tool2Kwargs, ExtractValuesetsParams)
    THEN ExceptResult(UnexpectedKeyword("extract_valuesets_with_omop_tool",
                                        "library_definitions"),
                      <<>>, <<"parse">>)
    ELSE IF ~req.tools.t2.success
    THEN FailedAtResult("tool2_extract_valuesets_with_omop",
                        <<"Extraction failed">>, <<"parse", "extract">>)
    ELSE IF ~req.tools.t3.success
    THEN FailedAtResult("tool3_generate_omop_sql", <<"SQL generation failed">>,
                        <<"parse", "extract", "generate">>)
    ELSE TranslateTail(req, order)

(***************************************************************************)
(* The translation request: LLMDrivenWorkflow                              *)
(***************************************************************************)

\* WorkflowState before the entry node, with the bookkeeping of which
\* component calls the nodes made
InitialState ==
    [node |-> "parse_and_analyze",
     parse_failed |-> FALSE,
     placeholder_mappings |-> <<>>,
     generated_sql |-> [set |-> FALSE, sql |-> <<>>, error |-> FALSE],
     validation_result |-> [set |-> FALSE, valid |-> FALSE, error_issues |-> FALSE],
     validator_ran |-> FALSE,
     corrected_sql |-> [set |-> FALSE, corrected_sql |-> <<>>, success |-> FALSE],
     corrector_invoked |-> FALSE,
     handed_sql |-> <<>>,
     final_sql |-> <<>>]

\* What LLMDrivenWorkflow.run hands back: the final state, or the exception
\* of a node, re-raised
RunReturned(st, replaced) ==
    [raised |-> FALSE, final_sql |-> st.final_sql, placeholders_replaced |-> replaced]

RunRaised == [raised |-> TRUE, final_sql |-> <<>>, placeholders_replaced |-> 0]

\* SimplifiedMCPClient.extract_and_map_valuesets: it raises without VSAC
\* credentials and when the MCP call fails, returns {} without a database
\* configuration, else the processed response (`response.placeholders`)
ExtractAndMap(req, response) ==
    IF ~req.vsac_credentials THEN [raised |-> TRUE, placeholders |-> <<>>]
    ELSE IF ~req.db_config THEN [raised |-> FALSE, placeholders |-> <<>>]
    ELSE IF ~response.ok THEN [raised |-> TRUE, placeholders |-> <<>>]
    ELSE [raised |-> FALSE, placeholders |-> response.placeholders]

\* SimpleSQLGenerator.generate: the LLM's JSON object, or the minimal
\* structure with "error" when the call or the parsing raised
Generate(response) ==
    IF ~response.ok
    THEN [set |-> TRUE, sql |-> <<>>, error |-> TRUE]
    ELSE [set |-> TRUE, sql |-> response.sql, error |-> FALSE]

\* validate_sql: no SQL is an error issue without a validator call; an
\* exception inside SQLValidator.validate comes back as valid with a warning
ValidateSql(sql, response) ==
    IF sql = <<>>
    THEN [ran |-> FALSE,
          result |-> [set |-> TRUE, valid |-> FALSE, error_issues |-> TRUE]]
    ELSE IF ~response.ok
    THEN [ran |-> TRUE,
          result |-> [set |-> TRUE, valid |-> TRUE, error_issues |-> FALSE]]
    ELSE [ran |-> TRUE,
          result |-> [set |-> TRUE, valid |-> response.valid,
                      error_issues |-> response.error_issues]]

\* SQLCorrector.correct_sql: nothing to do without error-severity issues,
\* else the LLM's JSON object, or the original SQL when the call raised
CorrectorResult(sql, validation, response) ==
    IF ~validation.error_issues
    THEN [set |-> TRUE, corrected_sql |-> sql, success |-> TRUE]
    ELSE IF ~response.ok
    THEN [set |-> TRUE, corrected_sql |-> sql, success |-> FALSE]
    ELSE [set |-> TRUE, corrected_sql |-> response.corrected_sql,
          success |-> response.success]

\* A correct_sql that calls the corrector whatever validation said
CorrectSqlUnconditional(sql, validation, response) ==
    [invoked |-> TRUE, result |-> CorrectorResult(sql, validation, response)]

\* correct_sql: the corrector is called only when validation said invalid
CorrectSql(sql, validation, response) ==
    IF validation.valid
    THEN [invoked |-> FALSE,
          result |-> [set |-> TRUE, corrected_sql |-> sql, success |-> TRUE]]
    ELSE [invoked |-> TRUE, result |-> CorrectorResult(sql, validation, response)]

\* replace_placeholders: the SQL it works on
SqlForReplacement(st) ==
    IF st.corrected_sql.success /\ st.corrected_sql.corrected_sql # <<>>
    THEN st.corrected_sql.corrected_sql
    ELSE st.generated_sql.sql

\* replace_placeholders: the loop over the discovered tokens
WorkflowReplace(sql, mappings, dialect, order) ==
    IF sql = <<>>
    THEN [final_sql |-> <<>>, replacements_made |-> 0, unmapped_placeholders |-> <<>>]
    ELSE ReplaceLoop([final_sql |-> sql, replacements_made |-> 0,
                      unmapped_placeholders |-> <<>>],
                     order, mappings, dialect)

(***************************************************************************)
(* Inputs of a translation request                                         *)
(***************************************************************************)

\* IN (PLACEHOLDER_X)
GenSql1 == <<"IN", " ">> \o wrapped_pattern(PX)

\* IN (PLACEHOLDER_X) AND IN (PLACEHOLDER_Z)
GenSql2 == GenSql1 \o <<" ", "AND", " ", "IN", " ">> \o wrapped_pattern(PZ)

\* IN (PLACEHOLDER_X) AND IN (PLACEHOLDER_Z) AND IN (PLACEHOLDER_DIABETES)
GenSql3 == GenSql2 \o <<" ", "AND", " ", "IN", " ">> \o wrapped_pattern(PD)

\* SQL texts a generator response carries; <<>> is a response without "sql"
GeneratedSqls == {<<>>, GenSql1, GenSql2}

\* What a corrector response makes of `sql`: unchanged, a fix that keeps the
\* tokens, a token renamed, the tokens dropped, or no "corrected_sql"
CorrectedSqls(sql) ==
    {sql, <<"SELECT", " ">> \o sql, Replace(sql, PX, PXY), <<"SELECT", " ", "1">>, <<>>}

\* Registries the extraction stage hands on
PipelineRegistries ==
    {(PX :> << <<"1">> >>), (PX :> << <<"1">>, <<"2">> >>) @@ (PZ :> <<>>)}

\* The responses of the collaborators of the workflow's nodes
ExtractResponses ==
    {[ok |-> FALSE, placeholders |-> <<>>]}
      \cup {[ok |-> TRUE, placeholders |-> m] : m \in PipelineRegistries}

GenerateResponses ==
    {[ok |-> FALSE, sql |-> <<>>]} \cup {[ok |-> TRUE, sql |-> s] : s \in GeneratedSqls}

ValidateResponses ==
    {[ok |-> FALSE, valid |-> FALSE, error_issues |-> FALSE]}
      \cup {[ok |-> TRUE, valid |-> v, error_issues |-> e] : v, e \in BOOLEAN}

CorrectResponses(sql) ==
    {[ok |-> FALSE, corrected_sql |-> <<>>, success |-> FALSE]}
      \cup {[ok |-> TRUE, corrected_sql |-> c, success |-> b] :
               c \in CorrectedSqls(sql), b \in BOOLEAN}

\* LLMDrivenWorkflow.run(cql_content, sql_dialect=...) with an inline CQL text,
\* under a configuration with or without credentials and database settings
WorkflowRequests ==
    {[sql_dialect |-> d, vsac_credentials |-> c, db_config |-> b] :
        d \in Dialects, c \in BOOLEAN, b \in BOOLEAN}

\* What the six stage tools return to the translate tool, scripted per request
Tool2Scripts ==
    {[success |-> FALSE, placeholder_mappings |-> <<>>, total_valuesets_extracted |-> 0],
     [success |-> TRUE, placeholder_mappings |-> (PX :> << <<"1">> >>),
      total_valuesets_extracted |-> 1],
     [success |-> TRUE,
      placeholder_mappings |-> (PX :> << <<"1">>, <<"2">> >>) @@ (PZ :> <<>>),
      total_valuesets_extracted |-> 2]}

Tool3Scripts ==
    {[success |-> FALSE, sql |-> <<>>],
     [success |-> TRUE, sql |-> GenSql1],
     [success |-> TRUE, sql |-> GenSql2]}

Tool4Scripts ==
    {[success |-> TRUE, valid |-> TRUE, issue_counts |-> TRUE],
     [success |-> TRUE, valid |-> FALSE, issue_counts |-> TRUE],
     [success |-> FALSE, valid |-> FALSE, issue_counts |-> FALSE]}

Tool5Scripts ==
    {[success |-> TRUE, sql_changed |-> TRUE, corrected_sql |-> <<"SELECT", " ", "1">>],
     [success |-> TRUE, sql_changed |-> TRUE, corrected_sql |-> Replace(GenSql1, PX, PXY)],
     [success |-> TRUE, sql_changed |-> FALSE, corrected_sql |-> <<>>],
     [success |-> FALSE, sql_changed |-> FALSE, corrected_sql |-> <<>>]}

ToolScripts ==
    [t1 : {[success |-> b] : b \in BOOLEAN}, t2 : Tool2Scripts, t3 : Tool3Scripts,
     t4 : Tool4Scripts, t5 : Tool5Scripts]

\* Two value sets and one code: the first value set maps to three concepts,
\* the second to none, the code to one; the SQL references the three tokens
\* and validation reports no error
ScenarioTools ==
    [t1 |-> [success |-> TRUE],
     t2 |-> [success |-> TRUE,
             placeholder_mappings |->
                 (PX :> << <<"1">>, <<"2">>, <<"3">> >>) @@ (PZ :> <<>>)
                   @@ (PD :> << <<"101">> >>),
             total_valuesets_extracted |-> 2],
     t3 |-> [success |-> TRUE, sql |-> GenSql3],
     t4 |-> [success |-> TRUE, valid |-> TRUE, issue_counts |-> TRUE],
     t5 |-> [success |-> TRUE, sql_changed |-> FALSE, corrected_sql |-> <<>>]]

ScenarioRequest ==
    [sql_dialect |-> "postgresql", validate |-> TRUE, correct_errors |-> TRUE,
     tools |-> ScenarioTools]

TranslateRequests ==
    {ScenarioRequest}
      \cup [sql_dialect : Dialects, validate : BOOLEAN, correct_errors : BOOLEAN,
            tools : ToolScripts]

(***************************************************************************)
(* The specification of one translation request                            *)
(***************************************************************************)

InitPipeline ==
    /\ pc = "call"
    /\ \/ entry = "translate" /\ request \in TranslateRequests /\ state = <<>>
       \/ entry = "workflow" /\ request \in WorkflowRequests /\ state = InitialState
    /\ stages = <<>>
    /\ translate_result = <<>>
    /\ SubstitutionIdle
    /\ FlattenIdle
    /\ RegistryIdle
    /\ ExtractorIdle
    /\ ServiceIdle
    /\ HeartbeatIdle

\* What no action of a translation request changes
pipelineFrame ==
    <<sql_query, placeholder_mappings, sql_dialect, result, concept_ids, flattened,
      main_extraction, main_omop, tool2_result, library_files, extractorVars,
      serviceVars, heartbeatVars, entry, request>>

\* Most progress reports of one heartbeat task
MaxHeartbeats == 2

\* A request whose finally block leaves the heartbeat task alone
no_cancel(task) == task

\* heartbeat_task.cancel(): a task that has not ended is asked to end, and the
\* event loop raises CancelledError in it at its next step
heartbeat_cancel(task) ==
    IF task \in {"created", "sleeping"} THEN "cancelling" ELSE task

\* What the translate tool leaves alone
translateFrame ==
    <<sql_query, placeholder_mappings, sql_dialect, result, concept_ids, flattened,
      main_extraction, main_omop, tool2_result, library_files, extractorVars,
      serviceVars, entry, request, state, heartbeats>>

\* One call of the translate tool: the heartbeat task is created, the pipeline
\* runs, and the finally block cancels the task.  The call reaches no
\* suspension point (its first stage call raises before anything is awaited),
\* so the event loop runs no other task in between.
translate_cql_to_sql_complete_tool ==
    /\ pc = "call"
    /\ entry = "translate"
    /\ \E order \in IterationOrders(UniquePlaceholders(HandedSql(request))) :
          /\ translate_result' = Translate(request, order)
          /\ stages' = Translate(request, order).stages
    /\ heartbeat_task' = heartbeat_cancel("created")
    /\ pc' = "done"
    /\ UNCHANGED translateFrame

\* One step of the heartbeat task in the event loop: a task asked to end gets
\* CancelledError at its await (or before its first statement) and reports
\* nothing; otherwise it starts its first sleep, or wakes up from a sleep,
\* reports progress and sleeps again
send_heartbeat ==
    /\ heartbeat_task \in {"created", "sleeping", "cancelling"}
    /\ IF heartbeat_task = "cancelling"
       THEN heartbeat_task' = "cancelled" /\ UNCHANGED heartbeats
       ELSE IF heartbeat_task = "created"
       THEN heartbeat_task' = "sleeping" /\ UNCHANGED heartbeats
       ELSE /\ heartbeats < MaxHeartbeats
            /\ heartbeats' = heartbeats + 1
            /\ UNCHANGED heartbeat_task
    /\ UNCHANGED <<pc, stages, translate_result, translateFrame>>

\* A node of the workflow graph is due
AtNode(n) == pc = "call" /\ entry = "workflow" /\ state.node = n

\* Step 1: the parser falls back to a minimal structure when the LLM response
\* cannot be turned into a CQLStructure
parse_and_analyze ==
    /\ AtNode("parse_and_analyze")
    /\ \E failed \in BOOLEAN :
          state' = [state EXCEPT !.node = "extract_all_valuesets",
                                 !.parse_failed = failed]
    /\ stages' = Append(stages, "parse")
    /\ UNCHANGED <<pc, pipelineFrame, translate_result>>

\* Step 2: an exception of the MCP client leaves the graph and is re-raised
\* by run
extract_all_valuesets ==
    /\ AtNode("extract_all_valuesets")
    /\ stages' = Append(stages, "extract")
    /\ \E response \in ExtractResponses :
          LET main_result == ExtractAndMap(request, response)
          IN IF main_result.raised
             THEN /\ state' = [state EXCEPT !.node = "raised"]
                  /\ translate_result' = RunRaised
                  /\ pc' = "done"
             ELSE /\ state' = [state EXCEPT
                                  !.node = "generate_sql",
                                  !.placeholder_mappings = main_result.placeholders]
                  /\ UNCHANGED <<translate_result, pc>>
    /\ UNCHANGED pipelineFrame

\* Step 3
generate_sql ==
    /\ AtNode("generate_sql")
    /\ \E response \in GenerateResponses :
          state' = [state EXCEPT !.node = "validate_sql",
                                 !.generated_sql = Generate(response)]
    /\ stages' = Append(stages, "generate")
    /\ UNCHANGED <<pc, pipelineFrame, translate_result>>

\* Step 4
validate_sql ==
    /\ AtNode("validate_sql")
    /\ \E response \in ValidateResponses :
          LET v == ValidateSql(state.generated_sql.sql, response)
          IN state' = [state EXCEPT !.node = "correct_sql",
                                    !.validation_result = v.result,
                                    !.validator_ran = v.ran]
    /\ stages' = Append(stages, "validate")
    /\ UNCHANGED <<pc, pipelineFrame, translate_result>>

\* Step 5
correct_sql ==
    /\ AtNode("correct_sql")
    /\ \E response \in CorrectResponses(state.generated_sql.sql) :
          LET c == CorrectSql(state.generated_sql.sql, state.validation_result, response)
          IN state' = [state EXCEPT !.node = "replace_placeholders",
                                    !.corrected_sql = c.result,
                                    !.corrector_invoked = c.invoked]
    /\ stages' = Append(stages, "correct")
    /\ UNCHANGED <<pc, pipelineFrame, translate_result>>

\* Step 6, after which the graph ends and run returns the final state
replace_placeholders ==
    /\ AtNode("replace_placeholders")
    /\ \E order \in IterationOrders(UniquePlaceholders(SqlForReplacement(state))) :
          LET loop == WorkflowReplace(SqlForReplacement(state),
                                      state.placeholder_mappings,
                                      request.sql_dialect, order)
              final == [state EXCEPT !.node = "END",
                                     !.handed_sql = SqlForReplacement(state),
                                     !.final_sql = loop.final_sql]
          IN /\ state' = final
             /\ translate_result' = RunReturned(final, loop.replacements_made)
    /\ stages' = Append(stages, "substitute")
    /\ pc' = "done"
    /\ UNCHANGED pipelineFrame

NextPipeline ==
    \/ translate_cql_to_sql_complete_tool
    \/ parse_and_analyze
    \/ extract_all_valuesets
    \/ generate_sql
    \/ validate_sql
    \/ correct_sql
    \/ replace_placeholders
    \/ send_heartbeat

SpecPipeline == InitPipeline /\ [][NextPipeline]_vars

(***************************************************************************)
(* Claims about the translation request                                    *)
(***************************************************************************)

\* The position of a stage in the pipeline
StageIndex(s) == CHOOSE i \in 1..Len(StageOrder) : StageOrder[i] = s

\* The stages of `seq` are distinct and in pipeline order
InFixedOrder(seq) ==
    \A i, j \in 1..Len(seq) : i < j => StageIndex(seq[i]) < StageIndex(seq[j])

\* No stage started after stage s
NothingAfter(s) == s \in Range(stages) => stages[Len(stages)] = s

\* C11: within one translation request the stages run in the fixed order
\* parse, extract/resolve, generate, validate, correct, substitute, none more
\* than once, and no later stage starts after parse, extract/resolve or
\* generate has reported failure.
C11_StagesInFixedOrder ==
    /\ InFixedOrder(stages)
    /\ entry = "workflow" =>
          /\ state.node = "raised" => NothingAfter("extract")
          /\ state.generated_sql.error => NothingAfter("generate")
    /\ (entry = "translate" /\ Done) =>
          /\ translate_result.failed_at = "tool1_parse_cql_structure" => NothingAfter("parse")
          /\ translate_result.failed_at = "tool2_extract_valuesets_with_omop"
                => NothingAfter("extract")
          /\ translate_result.failed_at = "tool3_generate_omop_sql"
                => NothingAfter("generate")

C13_TokensSurviveCorrection ==
    /\ (entry = "workflow" /\ state.node = "END") =>
          UniquePlaceholders(state.handed_sql)
             = UniquePlaceholders(state.generated_sql.sql)
    /\ (entry = "translate" /\ Done /\ "substitute" \in Range(stages)) =>
          UniquePlaceholders(translate_result.handed_sql)
             = UniquePlaceholders(request.tools.t3.sql)

\* C14: the pipeline ends without SQL only when credentials are missing or
\* the database connection fails; every other request ends in a result that
\* carries final_sql.  The requests of the translate tool all come with
\* credentials and a reachable database.
C14_DataProblemsCarrySql ==
    Done =>
       /\ entry = "translate" => "final_sql" \in translate_result.keys
       /\ entry = "workflow" =>
             (translate_result.raised =>
                 ~request.vsac_credentials \/ request.db_config)

\* C15: for the scenario of two value sets and one code (three, zero and one
\* concept), SQL referencing the three tokens and validation without errors,
\* translate returns success with valuesets_extracted = 2,
\* placeholders_replaced = 3 and a final_sql without any PLACEHOLDER_.
C15_ScenarioSucceeds ==
    (Done /\ entry = "translate" /\ request = ScenarioRequest) =>
       /\ translate_result.success
       /\ translate_result.valuesets_extracted = 2
       /\ translate_result.placeholders_replaced = 3
       /\ "final_sql" \in translate_result.keys
       /\ FindAll(translate_result.final_sql) = <<>>

\* An LLM-backed stage of the request got a response it could not use
LlmStageFailed(req) ==
    \/ ~req.tools.t1.success
    \/ ~req.tools.t3.success
    \/ req.validate /\ ~req.tools.t4.success
    \/ req.correct_errors /\ ~req.tools.t5.success

\* C16: when an LLM-backed stage receives a malformed or unparseable
\* response, translate returns a result whose `errors` list contains a
\* message describing that failure.
C16_LlmFailureInErrors ==
    (Done /\ entry = "translate" /\ LlmStageFailed(request)) =>
       /\ "errors" \in translate_result.keys
       /\ Len(translate_result.errors) > 0

(***************************************************************************)
(* The regex extractors: extract_valueset_identifiers_from_cql and         *)
(* extract_individual_codes_from_cql                                       *)
(*                                                                         *)
(* The argument is a record: `type` is the Python type of the value passed *)
(* and `text`, for a str, its atoms.                                       *)
(***************************************************************************)

\* text[i], or "" past the end of the text
At(text, i) == IF i \in 1..Len(text) THEN text[i] ELSE ""

\* \s
IsSpace(a) == a \in {" ", "\n"}

\* Atoms made of digits (\d+)
DigitAtoms ==
    {"1", "2", "3", "4", "9", "10", "16", "101", "102", "840", "8462"}

Max(S) == CHOOSE x \in S : \A y \in S : y <= x

\* The index just past the run of digits and dots that starts at i
RECURSIVE OidRunEnd(_, _)
OidRunEnd(text, i) ==
    IF At(text, i) \in DigitAtoms \cup {"."} THEN OidRunEnd(text, i + 1) ELSE i

\* (\d+\.)*\d+ matches the whole of s
IsOid(s) ==
    /\ Len(s) > 0
    /\ s[1] \in DigitAtoms
    /\ s[Len(s)] \in DigitAtoms
    /\ \A i \in 1..(Len(s) - 1) : ~(s[i] = "." /\ s[i + 1] = ".")

\* (":\s')(urn:oid:)((\d+\.)*\d+)(') matched at q
TailAt(text, q) ==
    LET e == OidRunEnd(text, q + 8)
    IN [ok |-> /\ At(text, q) = "\""
               /\ At(text, q + 1) = ":"
               /\ IsSpace(At(text, q + 2))
               /\ At(text, q + 3) = "'"
               /\ SubSeq(text, q + 4, q + 7) = <<"urn", ":", "oid", ":">>
               /\ IsOid(SubSeq(text, q + 8, e - 1))
               /\ At(text, e) = "'",
        oid |-> SubSeq(text, q + 8, e - 1),
        end |-> e]

\* Where group 2, (.+), can end for a match that starts at p: `.` matches
\* anything but a newline
NameEnds(text, p) ==
    {q \in (p + 4)..Len(text) :
        /\ \A k \in (p + 3)..(q - 1) : text[k] # "\n"
        /\ TailAt(text, q).ok}

\* The pattern matches at p
MatchesAt(text, p) ==
    /\ At(text, p) = "valueset"
    /\ IsSpace(At(text, p + 1))
    /\ At(text, p + 2) = "\""
    /\ NameEnds(text, p) # {}

\* The match at p: (.+) is greedy, the name runs to the last possible end
MatchAt(text, p) ==
    LET q == Max(NameEnds(text, p))
    IN [name |-> SubSeq(text, p + 3, q - 1),
        oid |-> TailAt(text, q).oid,
        end |-> TailAt(text, q).end]

\* re.finditer(pattern, cql_query): the non-overlapping matches from p on
RECURSIVE FindValuesets(_, _)
FindValuesets(text, p) ==
    IF p > Len(text) THEN <<>>
    ELSE IF MatchesAt(text, p)
         THEN <<MatchAt(text, p)>> \o FindValuesets(text, MatchAt(text, p).end + 1)
         ELSE FindValuesets(text, p + 1)

\* ValueSetReference(name=name.strip(), oid=oid.strip()) for every match
ValueSetReferences(matches) ==
    [i \in 1..Len(matches) |-> [name |-> Strip(matches[i].name), oid |-> matches[i].oid]]

\* extract_valueset_identifiers_from_cql: (list(oids), valuesets), the set
\* listed in `order`
ExtractValuesetIdentifiers(query, order) ==
    IF query.type # "str" \/ query.text = <<>>
    THEN [raised |-> FALSE, oids |-> <<>>, valuesets |-> <<>>]
    ELSE [raised |-> FALSE, oids |-> order,
          valuesets |-> ValueSetReferences(FindValuesets(query.text, 1))]

\* The set `oids` of the call
OidSet(query) ==
    IF query.type # "str" THEN {}
    ELSE {m.oid : m \in Range(FindValuesets(query.text, 1))}


\* The index just past the run of whitespace that starts at i (\s+ took
\* something when it is past i)
RECURSIVE SkipSpaces(_, _)
SkipSpaces(text, i) ==
    IF IsSpace(At(text, i)) THEN SkipSpaces(text, i + 1) ELSE i

\* The first index from i on that holds atom a, 0 when there is none
RECURSIVE IndexFrom(_, _, _)
IndexFrom(text, i, a) ==
    IF i > Len(text) \/ i < 1 THEN 0
    ELSE IF text[i] = a THEN i ELSE IndexFrom(text, i + 1, a)

\* code\s+"([^"]+)":\s+'([^']+)'\s+from\s+"([^"]+)" matched at p
CodeMatchAt(text, p) ==
    LET s1 == SkipSpaces(text, p + 1)
        n == IndexFrom(text, s1 + 1, "\"")
        s2 == SkipSpaces(text, n + 2)
        c == IndexFrom(text, s2 + 1, "'")
        s3 == SkipSpaces(text, c + 1)
        s4 == SkipSpaces(text, s3 + 1)
        y == IndexFrom(text, s4 + 1, "\"")
    IN [ok |-> /\ At(text, p) = "code"
               /\ s1 > p + 1 /\ At(text, s1) = "\""
               /\ n > s1 + 1 /\ At(text, n + 1) = ":"
               /\ s2 > n + 2 /\ At(text, s2) = "'"
               /\ c > s2 + 1
               /\ s3 > c + 1 /\ At(text, s3) = "from"
               /\ s4 > s3 + 1 /\ At(text, s4) = "\""
               /\ y > s4 + 1,
        name |-> SubSeq(text, s1 + 1, n - 1),
        code |-> SubSeq(text, s2 + 1, c - 1),
        system |-> SubSeq(text, s4 + 1, y - 1),
        end |-> y]

\* re.finditer(code_pattern, cql_query): the codes list
RECURSIVE FindCodes(_, _)
FindCodes(text, p) ==
    IF p > Len(text) THEN <<>>
    ELSE LET m == CodeMatchAt(text, p)
         IN IF m.ok
            THEN <<[name |-> m.name, code |-> m.code, system |-> m.system]>>
                     \o FindCodes(text, m.end + 1)
            ELSE FindCodes(text, p + 1)

\* extract_individual_codes_from_cql: re.finditer raises TypeError for
\* anything that is not a str, and nothing catches it
ExtractIndividualCodes(query) ==
    IF query.type # "str"
    THEN [raised |-> TRUE, codes |-> <<>>, count |-> 0]
    ELSE LET codes == FindCodes(query.text, 1)
         IN [raised |-> FALSE, codes |-> codes, count |-> Len(codes)]

\* map_vsac_to_omop_tool up to step1_extraction: both extractors run on the
\* query; an exception of either ends the tool with success False, and
\* step1_extraction carries the valuesets only
Step1Extraction(query) ==
    IF ExtractIndividualCodes(query).raised THEN NoExtraction
    ELSE [valuesets |-> ExtractValuesetIdentifiers(query, <<>>).valuesets,
          codes |-> <<>>]

(***************************************************************************)
(* Inputs of the extractors                                                *)
(***************************************************************************)

\* Declarations and other lines per CQL text
MaxDecls == 2

\* valueset "name": 'urn:oid:oid'
SingleQuotedDecl(name, oid) ==
    <<"valueset", " ", "\"", name, "\"", ":", " ", "'", "urn", ":", "oid", ":">>
        \o oid \o <<"'">>

\* valueset "name": "urn:oid:oid"
DoubleQuotedDecl(name, oid) ==
    <<"valueset", " ", "\"", name, "\"", ":", " ", "\"", "urn", ":", "oid", ":">>
        \o oid \o <<"\"">>

\* code "Systolic": '8462-4' from "LOINC"
CodeDeclText ==
    <<"code", " ", "\"", "Systolic", "\"", ":", " ", "'", "8462", "-", "4", "'",
      " ", "from", " ", "\"", "LOINC", "\"">>

\* The pieces a CQL text is made of
CqlItems ==
    {SingleQuotedDecl(n, o) : n \in {"Diabetes", "Hypertension"}, o \in Oids}
      \cup {DoubleQuotedDecl("Diabetes", <<"1", ".", "2">>),
            CodeDeclText,
            <<"define", " ", "X", ":", " ", "1">>}

\* CQL texts: up to MaxDecls pieces, two neighbours on one line or on two
RECURSIVE JoinWith(_, _)
JoinWith(items, seps) ==
    IF Len(items) = 0 THEN <<>>
    ELSE IF Len(items) = 1 THEN items[1]
    ELSE items[1] \o <<seps[1]>> \o JoinWith(Tail(items), Tail(seps))

CqlTexts ==
    {JoinWith(items, seps) :
        items \in UNION {[1..n -> CqlItems] : n \in 0..MaxDecls},
        seps \in [1..(MaxDecls - 1) -> {" ", "\n"}]}

\* What a caller can pass: a str, or a value of another type
CqlQueries ==
    {[type |-> "str", text |-> t] : t \in CqlTexts}
      \cup {[type |-> ty, text |-> <<>>] : ty \in {"NoneType", "int", "list", "bytes"}}

NotCalled == [ran |-> FALSE, raised |-> FALSE]

NotExtracted == [valuesets |-> NotCalled, codes |-> NotCalled]


(***************************************************************************)
(* The extractors exercised: each called once on the query, and the query  *)
(* taken through map_vsac_to_omop_tool into the registry                   *)
(***************************************************************************)

InitExtractor ==
    /\ pc = "extract"
    /\ cql_query \in CqlQueries
    /\ extracted = NotExtracted
    /\ SubstitutionIdle
    /\ FlattenIdle
    /\ RegistryIdle
    /\ PipelineIdle
    /\ ServiceIdle
    /\ HeartbeatIdle

extractorFrame ==
    UNCHANGED <<sql_query, placeholder_mappings, sql_dialect, result,
                concept_ids, flattened, library_files, pipelineVars,
                serviceVars, heartbeatVars>>

\* One call of extract_valueset_identifiers_from_cql
extract_valueset_identifiers_from_cql ==
    /\ pc = "extract"
    /\ ~extracted.valuesets.ran
    /\ \E order \in IterationOrders(OidSet(cql_query)) :
          extracted' = [extracted EXCEPT !.valuesets =
                           [ran |-> TRUE] @@ ExtractValuesetIdentifiers(cql_query, order)]
    /\ UNCHANGED <<pc, cql_query, main_extraction, main_omop, tool2_result>>
    /\ extractorFrame

\* One call of extract_individual_codes_from_cql
extract_individual_codes_from_cql ==
    /\ pc = "extract"
    /\ ~extracted.codes.ran
    /\ extracted' = [extracted EXCEPT !.codes =
                        [ran |-> TRUE] @@ ExtractIndividualCodes(cql_query)]
    /\ UNCHANGED <<pc, cql_query, main_extraction, main_omop, tool2_result>>
    /\ extractorFrame

\* map_vsac_to_omop_tool on the query: step1_extraction from the extractors,
\* and the mapped rows for the concept sets the vocabulary knows
map_vsac_to_omop_tool ==
    /\ pc = "extract"
    /\ main_extraction' = Step1Extraction(cql_query)
    /\ \E hits \in SUBSET Range(ConceptSetIds(Step1Extraction(cql_query))) :
          main_omop' = MappedRows(Step1Extraction(cql_query), hits)
    /\ pc' = "call"
    /\ UNCHANGED <<cql_query, extracted, tool2_result>>
    /\ extractorFrame

NextExtractor ==
    \/ extract_valueset_identifiers_from_cql
    \/ extract_individual_codes_from_cql
    \/ map_vsac_to_omop_tool
    \/ extract_valuesets_with_omop_tool

SpecExtractor == InitExtractor /\ [][NextExtractor]_vars

\* The text declares  valueset "name": 'urn:oid:oid'
Declares(text, name, oid) == Contains(text, SingleQuotedDecl(name, oid))

DeclaredNames == {"Diabetes", "Hypertension"}

\* C18: value-set extraction returns OID O for every declaration
\* valueset "X": 'urn:oid:O' with a single-quoted OID literal, and returns
\* nothing for a double-quoted declaration or a text without declarations.
C18_SingleQuotedOidsExtracted ==
    (cql_query.type = "str" /\ extracted.valuesets.ran) =>
        /\ \A n \in DeclaredNames, o \in Oids :
              Declares(cql_query.text, n, o) => o \in Range(extracted.valuesets.oids)
        /\ (\A n \in DeclaredNames, o \in Oids : ~Declares(cql_query.text, n, o)) =>
              /\ extracted.valuesets.oids = <<>>
              /\ extracted.valuesets.valuesets = <<>>

\* The name of the first entry of valuesets that has the OID
FirstSeenName(valuesets, oid) ==
    valuesets[CHOOSE i \in 1..Len(valuesets) :
                 /\ valuesets[i].oid = oid
                 /\ \A j \in 1..(i - 1) : valuesets[j].oid # oid].name

\* C19: within one extraction call each OID has exactly one entry in the OID
\* list and at most one ValueSetReference, and the registry built from the
\* extraction keeps, for an OID declared under several names, the first name.
C19_OneEntryPerOidFirstNameKept ==
    /\ extracted.valuesets.ran =>
          LET oids == extracted.valuesets.oids
              refs == extracted.valuesets.valuesets
          IN /\ \A i, j \in 1..Len(oids) : oids[i] = oids[j] => i = j
             /\ \A r \in Range(refs) : r.oid \in Range(oids)
             /\ \A i, j \in 1..Len(refs) : refs[i].oid = refs[j].oid => i = j
    /\ \A oid \in DOMAIN tool2_result.all_valuesets :
          tool2_result.all_valuesets[oid].name
              = FirstSeenName(main_extraction.valuesets, oid)

\* C20: both extraction operations return empty results and never raise for
\* malformed input, None and non-string values included.
C20_MalformedInputNeverRaises ==
    cql_query.type # "str" =>
        /\ extracted.valuesets.ran =>
              /\ ~extracted.valuesets.raised
              /\ extracted.valuesets.oids = <<>>
              /\ extracted.valuesets.valuesets = <<>>
        /\ extracted.codes.ran =>
              /\ ~extracted.codes.raised
              /\ extracted.codes.codes = <<>>

(***************************************************************************)
(* VSACService.retrieve_multiple_value_sets: the multi-OID fetch           *)
(*                                                                         *)
(* The call runs on the asyncio event loop: the fetch_single tasks of one  *)
(* batch are created together, each runs up to its HTTP request and ends   *)
(* when VSAC has answered it, in any order, and asyncio.gather resumes the *)
(* caller when all of them have ended.                                     *)
(***************************************************************************)

\* Most OIDs per call, and the largest concurrency window
MaxOids == 4

MaxConcurrency == 3

\* The k-th OID a caller asks for
FetchOid(k) == <<"2", ".", ToString(k)>>

NoValueSet == [id |-> <<>>, status |-> "", concepts |-> <<>>]

\* What retrieve_value_set returns when VSAC answers 200 with a value set,
\* and what parse_vsac_response returns after an unexpected parse error
ParsedValueSet(oid, answer) ==
    IF answer = "parse_error"
    THEN [id |-> <<>>, status |-> "ERROR", concepts |-> << <<"PARSE_ERROR">> >>]
    ELSE [id |-> oid, status |-> "ACTIVE", concepts |-> << <<"E11", ".", "9">> >>]

\* normalize(raw, oid) on a VSACValueSet: the metadata id is filled in
normalize(raw, oid) == IF raw.id = <<>> THEN [raw EXCEPT !.id = oid] ELSE raw

\* make_error_shell(oid, err)
make_error_shell(oid) == [id |-> oid, status |-> "ERROR", concepts |-> <<>>]

\* fetch_single without its try/except: the exception reaches gather
fetch_single_uncaught(oid, raised, raw) ==
    [raised |-> raised, oid |-> oid,
     valueSetData |-> IF raised THEN NoValueSet ELSE normalize(raw, oid)]

\* fetch_single(oid) once retrieve_value_set has returned raw or has raised
fetch_single_result(oid, raised, raw) ==
    [raised |-> FALSE, oid |-> oid,
     valueSetData |-> IF raised THEN make_error_shell(oid) ELSE normalize(raw, oid)]

Min(a, b) == IF a <= b THEN a ELSE b

\* The positions of all the OIDs from i on, whatever the window
rest_of_list(ids, i, c) == (i + 1)..Len(ids)

\* The positions of value_set_ids[i:i + concurrency]
batch_positions(ids, i, c) == (i + 1)..Min(i + c, Len(ids))

NoTask == [status |-> "none", raised |-> FALSE, oid |-> <<>>, valueSetData |-> NoValueSet]

\* The tasks of the batch that starts at batch_start
CurrentBatch == batch_positions(value_set_ids, batch_start, concurrency)

(***************************************************************************)
(* Inputs of the fetch                                                     *)
(***************************************************************************)

\* What VSAC does with the request for one OID: a value set, a response the
\* parser chokes on, or an HTTP or network error
VsacAnswers == {"ok", "parse_error", "error"}

FetchRequests == UNION {{[k \in 1..n |-> FetchOid(k)]} : n \in 0..MaxOids}

\* The service's cache before the call: empty, or holding the first OID
Caches == {<<>>, FetchOid(1) :> ParsedValueSet(FetchOid(1), "ok")}

InitFetch ==
    /\ pc = "batch"
    /\ value_set_ids \in FetchRequests
    /\ concurrency \in 1..MaxConcurrency
    /\ \E answers \in [Range(value_set_ids) -> VsacAnswers], cache \in Caches :
          vsac = [answers |-> answers, cache |-> cache]
    /\ batch_start = 0
    /\ tasks = [k \in 1..Len(value_set_ids) |-> NoTask]
    /\ results = <<>>
    /\ SubstitutionIdle
    /\ FlattenIdle
    /\ RegistryIdle
    /\ PipelineIdle
    /\ ExtractorIdle
    /\ MapperIdle
    /\ ValidatorIdle
    /\ HeartbeatIdle

fetchFrame ==
    UNCHANGED <<sql_query, placeholder_mappings, sql_dialect, result, concept_ids,
                flattened, main_extraction, main_omop, tool2_result, library_files,
                pipelineVars, extractorVars, mapperVars, validated, heartbeatVars,
                value_set_ids, concurrency>>

\* The head of the batch loop: the tasks of the next batch are created and
\* handed to asyncio.gather, or the loop is over and the results are returned
retrieve_multiple_value_sets ==
    /\ pc = "batch"
    /\ IF batch_start >= Len(value_set_ids)
       THEN /\ pc' = "done"
            /\ UNCHANGED tasks
       ELSE /\ tasks' = [k \in DOMAIN tasks |->
                           IF k \in CurrentBatch
                           THEN [NoTask EXCEPT !.status = "created",
                                               !.oid = value_set_ids[k]]
                           ELSE tasks[k]]
            /\ pc' = "gather"
    /\ UNCHANGED <<vsac, batch_start, results>>
    /\ fetchFrame

\* A task starts: retrieve_value_set answers from the cache, or sends the
\* request and waits for VSAC
fetch_single ==
    /\ pc = "gather"
    /\ \E k \in DOMAIN tasks :
          /\ tasks[k].status = "created"
          /\ LET oid == value_set_ids[k]
             IN tasks' = [tasks EXCEPT ![k] =
                   IF oid \in DOMAIN vsac.cache
                   THEN [status |-> "done"]
                            @@ fetch_single_result(oid, FALSE, vsac.cache[oid])
                   ELSE [@ EXCEPT !.status = "in_flight"]]
    /\ UNCHANGED <<pc, vsac, batch_start, results>>
    /\ fetchFrame

\* VSAC answers a request: retrieve_value_set caches and returns the parsed
\* value set, or raises, and the task ends
vsac_responds ==
    /\ pc = "gather"
    /\ \E k \in DOMAIN tasks :
          /\ tasks[k].status = "in_flight"
          /\ LET oid == value_set_ids[k]
                 raw == ParsedValueSet(oid, vsac.answers[oid])
             IN IF vsac.answers[oid] = "error"
                THEN /\ tasks' = [tasks EXCEPT ![k] =
                            [status |-> "done"]
                                @@ fetch_single_result(oid, TRUE, NoValueSet)]
                     /\ UNCHANGED vsac
                ELSE /\ tasks' = [tasks EXCEPT ![k] =
                            [status |-> "done"] @@ fetch_single_result(oid, FALSE, raw)]
                     /\ vsac' = [vsac EXCEPT !.cache = DictSet(@, oid, normalize(raw, oid))]
    /\ UNCHANGED <<pc, batch_start, results>>
    /\ fetchFrame

\* results[result["oid"]] = result["valueSetData"] for the batch, in order
RECURSIVE StoreBatch(_, _, _)
StoreBatch(acc, ts, ks) ==
    IF ks = {} THEN acc
    ELSE LET k == CHOOSE x \in ks : \A y \in ks : x <= y
         IN StoreBatch(DictSet(acc, ts[k].oid, ts[k].valueSetData), ts, ks \ {k})

\* asyncio.gather resumes the caller: every task of the batch has ended
gather ==
    /\ pc = "gather"
    /\ \A k \in CurrentBatch : tasks[k].status = "done"
    /\ IF \E k \in CurrentBatch : tasks[k].raised
       THEN /\ pc' = "raised"
            /\ UNCHANGED <<results, batch_start>>
       ELSE /\ results' = StoreBatch(results, tasks, CurrentBatch)
            /\ batch_start' = batch_start + concurrency
            /\ pc' = "batch"
    /\ UNCHANGED <<vsac, tasks>>
    /\ fetchFrame

NextFetch ==
    \/ retrieve_multiple_value_sets
    \/ fetch_single
    \/ vsac_responds
    \/ gather

SpecFetch == InitFetch /\ [][NextFetch]_vars

\* The tasks that wait for VSAC
InFlight == {k \in DOMAIN tasks : tasks[k].status = "in_flight"}

\* The batch a position belongs to
BatchOf(k) == (k - 1) \div concurrency

\* C21: at most `concurrency` fetches are in flight at any time, and no fetch
\* of a batch has started before every fetch of the batches before it ended.
C21_BoundedWindowAndBatchBarrier ==
    /\ Cardinality(InFlight) <= concurrency
    /\ \A k, j \in DOMAIN tasks :
          (tasks[k].status \in {"in_flight", "done"} /\ BatchOf(j) < BatchOf(k))
              => tasks[j].status = "done"

\* A full window is in flight in a batch that is not the first
C21_Witness ==
    /\ concurrency > 1
    /\ Cardinality(InFlight) = concurrency
    /\ batch_start > 0

\* C22: when the fetch of one OID fails the call still returns an entry for
\* every requested OID: the error shell (no concepts, status ERROR) for the
\* failed one, and for the others exactly what their own fetches produced.
C22_FailedFetchYieldsErrorShell ==
    pc \in {"done", "raised"} =>
        /\ pc = "done"
        /\ DOMAIN results = Range(value_set_ids)
        /\ \A oid \in Range(value_set_ids) :
              IF oid \in DOMAIN vsac.cache
              THEN results[oid] = normalize(vsac.cache[oid], oid)
              ELSE /\ vsac.answers[oid] = "error"
                   /\ results[oid].concepts = <<>>
                   /\ results[oid].status = "ERROR"
                   /\ results[oid].id = oid

\* A call over two batches has returned, one fetch of the first batch failed
C22_Witness ==
    /\ pc = "done"
    /\ Len(value_set_ids) > concurrency
    /\ vsac.answers[value_set_ids[1]] = "error"
    /\ \E k \in DOMAIN tasks : k > concurrency /\ vsac.answers[value_set_ids[k]] = "ok"

(***************************************************************************)
(* The Concept Mapper: map_concepts_to_omop_database, in its two versions  *)
(* ("tool": tools/map_vsac_to_omop.py, called by map_vsac_to_omop_tool;    *)
(* "server": server.py, called by the map_vsac_to_omop MCP tool).          *)
(*                                                                         *)
(* The database is scripted statement by statement: a statement succeeds   *)
(* or raises.  The staging table is a TEMPORARY table: it lives in the     *)
(* session of the connection that created it, until DROP TABLE succeeds or *)
(* the session ends.                                                       *)
(***************************************************************************)

\* Most concepts handed to the mapper
MaxConcepts == 2

MappingTypes == <<"verbatim", "standard", "mapped">>

\* The rows a mapping query returns over the inserted concepts
QueryRows(type, inserted) == [i \in 1..Len(inserted) |-> <<type, inserted[i]>>]

\* The positions of the concepts whose INSERT succeeded, in order
RECURSIVE InsertedConcepts(_, _)
InsertedConcepts(inserts, i) ==
    IF i > Len(inserts) THEN <<>>
    ELSE (IF inserts[i] THEN <<i>> ELSE <<>>) \o InsertedConcepts(inserts, i + 1)

\* options.get("includeVerbatim", True) and the like
Included(options, type) == type \in options

\* The three query blocks of the tool version, each in its own try/except:
\* a failing query leaves [] and an error entry, and the next block runs
RECURSIVE QueriesCaught(_, _, _, _, _)
QueriesCaught(acc, i, options, db, inserted) ==
    IF i > Len(MappingTypes) THEN acc
    ELSE LET type == MappingTypes[i]
         IN QueriesCaught(
                IF ~Included(options, type) THEN acc
                ELSE IF db.queries[type]
                THEN [acc EXCEPT !.rows[type] = QueryRows(type, inserted),
                                 !.executed = @ \cup {type}]
                ELSE [acc EXCEPT !.errors = @ \cup {type},
                                 !.executed = @ \cup {type}],
                i + 1, options, db, inserted)

\* The three query blocks of the server version: no try/except, the first
\* failing query ends the body
RECURSIVE QueriesUncaught(_, _, _, _, _)
QueriesUncaught(acc, i, options, db, inserted) ==
    IF i > Len(MappingTypes) \/ acc.raised THEN acc
    ELSE LET type == MappingTypes[i]
         IN QueriesUncaught(
                IF ~Included(options, type) THEN acc
                ELSE IF db.queries[type]
                THEN [acc EXCEPT !.rows[type] = QueryRows(type, inserted),
                                 !.executed = @ \cup {type}]
                ELSE [acc EXCEPT !.raised = TRUE, !.error = "query failed",
                                 !.executed = @ \cup {type}],
                i + 1, options, db, inserted)

NoRows == [type \in Range(MappingTypes) |-> <<>>]

\* The mapper before its first statement
NoMapping ==
    [raised |-> FALSE, returned |-> FALSE, error |-> "", acquired |-> FALSE,
     created |-> FALSE, table |-> "none", inserted |-> <<>>, rows |-> NoRows,
     errors |-> {}, executed |-> {}, drop_attempted |-> FALSE]

Raise(m, msg) == [m EXCEPT !.raised = TRUE, !.error = msg]

\* DROP TABLE IF EXISTS on the staging table
DropTable(m, db) ==
    [m EXCEPT !.drop_attempted = TRUE,
              !.table = IF db.drop THEN "dropped" ELSE @]

\* The try body of the tool version
ToolBody(options, db) ==
    LET connected == [NoMapping EXCEPT !.acquired = TRUE]
        created == [connected EXCEPT !.created = TRUE, !.table = "created"]
        inserted == InsertedConcepts(db.inserts, 1)
        filled == [created EXCEPT !.inserted = inserted]
        queried == QueriesCaught(filled, 1, options, db, inserted)
    IN IF db.prelude = "connect_fails" THEN Raise(NoMapping, "connect failed")
       ELSE IF db.prelude = "version_fails" THEN Raise(connected, "query failed")
       ELSE IF db.prelude = "schema_missing" THEN Raise(connected, "No OMOP tables found")
       ELSE IF db.prelude = "create_fails" THEN Raise(connected, "create failed")
       ELSE IF ~db.count THEN Raise(filled, "query failed")
       ELSE IF Len(inserted) = 0
       THEN Raise(filled, "No concepts were successfully inserted into temporary table")
       ELSE [DropTable(queried, db) EXCEPT !.returned = TRUE]

\* The try body of the server version
ServerBody(options, db) ==
    LET connected == [NoMapping EXCEPT !.acquired = TRUE]
        created == [connected EXCEPT !.created = TRUE, !.table = "created"]
        inserted == InsertedConcepts(db.inserts, 1)
        filled == [created EXCEPT !.inserted = inserted]
        queried == QueriesUncaught(filled, 1, options, db, inserted)
    IN IF db.prelude = "connect_fails" THEN Raise(NoMapping, "connect failed")
       ELSE IF db.prelude = "version_fails" THEN Raise(connected, "query failed")
       ELSE IF db.prelude = "create_fails" THEN Raise(connected, "create failed")
       ELSE IF queried.raised THEN queried
       ELSE IF ~db.drop THEN Raise(DropTable(queried, db), "drop failed")
       ELSE [DropTable(queried, db) EXCEPT !.returned = TRUE]

\* A finally block that leaves the connection as it is
no_finally(version, conn) == conn

\* The finally block: connection.close() in the tool version,
\* pool.release(connection) and pool.close() in the server version
finally_close(version, conn) ==
    IF conn # "open" THEN conn
    ELSE IF version = "tool" THEN "closed" ELSE "released"

\* A table that outlives its session
session_keeps_table(table) == table

\* The end of the database session: its temporary tables go with it
session_end(table) == IF table = "created" THEN "dropped" ELSE table

\* One call of map_concepts_to_omop_database: the try body, then finally
MapConcepts(version, options, db) ==
    LET body == IF version = "tool" THEN ToolBody(options, db)
                ELSE ServerBody(options, db)
        conn == finally_close(version, IF body.acquired THEN "open" ELSE "none")
    IN [outcome |-> body,
        connection |-> conn,
        staging_table |-> IF conn \in {"closed", "released"}
                          THEN session_end(body.table) ELSE body.table]

(***************************************************************************)
(* Inputs of the Concept Mapper                                            *)
(***************************************************************************)

\* What happens before the inserts: the first statement that fails, if any
Preludes == {"ok", "connect_fails", "version_fails", "schema_missing", "create_fails"}

\* The database's answer to every statement of one call
DatabaseScripts ==
    {[prelude |-> p, inserts |-> i, count |-> c, queries |-> q, drop |-> d] :
        p \in Preludes,
        i \in UNION {[1..n -> BOOLEAN] : n \in 0..MaxConcepts},
        c \in BOOLEAN,
        q \in [Range(MappingTypes) -> BOOLEAN],
        d \in BOOLEAN}

\* The mapping types asked for: all (the MCP tool's default), or mapped only
\* (what extract_valuesets_with_omop_tool asks for)
MappingOptions == {Range(MappingTypes), {"mapped"}}

InitMapper ==
    /\ pc = "call"
    /\ database \in DatabaseScripts
    /\ \E v \in {"tool", "server"}, o \in MappingOptions :
          mapping = [version |-> v, options |-> o, outcome |-> NoMapping]
    /\ connection = "none"
    /\ staging_table = "none"
    /\ SubstitutionIdle
    /\ FlattenIdle
    /\ RegistryIdle
    /\ PipelineIdle
    /\ ExtractorIdle
    /\ FetchIdle
    /\ ValidatorIdle
    /\ HeartbeatIdle

\* One call of map_concepts_to_omop_database
map_concepts_to_omop_database ==
    /\ pc = "call"
    /\ mapping # <<>>
    /\ LET call == MapConcepts(mapping.version, mapping.options, database)
       IN /\ mapping' = [mapping EXCEPT !.outcome = call.outcome]
          /\ connection' = call.connection
          /\ staging_table' = call.staging_table
    /\ pc' = "done"
    /\ UNCHANGED <<sql_query, placeholder_mappings, sql_dialect, result, concept_ids,
                   flattened, main_extraction, main_omop, tool2_result, library_files,
                   pipelineVars, extractorVars, fetchVars, validated, heartbeatVars,
                   database>>

NextMapper == map_concepts_to_omop_database

SpecMapper == InitMapper /\ [][NextMapper]_vars

\* The call has ended
MappingEnded == pc = "done" /\ (mapping.outcome.returned \/ mapping.outcome.raised)

C24_ConnectionReleased ==
    (MappingEnded /\ mapping.outcome.acquired) => connection \in {"closed", "released"}

\* The call raised with its table created, and the connection is closed
C24_Witness ==
    /\ MappingEnded
    /\ mapping.outcome.raised
    /\ mapping.outcome.created
    /\ connection \in {"closed", "released"}

\* A mapping query was executed and failed
QueryFailed == \E type \in mapping.outcome.executed : ~database.queries[type]

\* C25: a failure of one of the three mapping queries yields an empty list
\* for that type only: the other queries are still executed and their
\* results are returned by the call.
C25_QueryFailureIsLocal ==
    (MappingEnded /\ QueryFailed) =>
        /\ mapping.outcome.returned
        /\ mapping.outcome.executed = mapping.options
        /\ \A type \in mapping.options :
              mapping.outcome.rows[type]
                  = IF database.queries[type]
                    THEN QueryRows(type, mapping.outcome.inserted) ELSE <<>>

\* C26: failed inserts do not abort the call: the failed rows are skipped
\* and the mapping queries run over the rows that were inserted, possibly none.
C26_InsertFailuresSkipped ==
    (/\ MappingEnded
     /\ mapping.outcome.created
     /\ \E i \in DOMAIN database.inserts : ~database.inserts[i]
     /\ database.count /\ database.drop
     /\ \A type \in Range(MappingTypes) : database.queries[type]) =>
        /\ mapping.outcome.returned
        /\ mapping.outcome.executed = mapping.options
        /\ \A type \in mapping.options :
              mapping.outcome.rows[type] = QueryRows(type, mapping.outcome.inserted)

(***************************************************************************)
(* The validation stage: validate_generated_sql_tool over                  *)
(* SQLValidator.validate                                                   *)
(***************************************************************************)

\* Most issues in one LLM response
MaxIssues == 2

Severities == {"error", "warning", "info"}

\* SQLValidator.validate: the LLM's JSON as a ValidationResult, or, when the
\* call or the parsing of its response raises, valid=True with one warning
SQLValidatorValidate(response) ==
    IF response.ok
    THEN [valid |-> response.valid, issues |-> response.issues]
    ELSE [valid |-> TRUE, issues |-> <<"warning">>]

\* validate_generated_sql_tool: the returned dict (issues by severity;
\* has_issues tells whether the dict has the key at all)
ValidateGeneratedSql(args, response) ==
    IF args.parsed_structure = "None" \/ args.all_valuesets = "None"
    THEN [success |-> FALSE, valid |-> FALSE, has_issues |-> FALSE, issues |-> <<>>,
          error |-> "is required but was None"]
    ELSE IF args.sql_query = <<>>
    THEN [success |-> FALSE, valid |-> FALSE, has_issues |-> TRUE,
          issues |-> <<"error">>, error |-> ""]
    ELSE LET v == SQLValidatorValidate(response)
         IN [success |-> TRUE, valid |-> v.valid, has_issues |-> TRUE,
             issues |-> v.issues, error |-> ""]

\* What the LLM answers: nothing usable, or a verdict with its issues
LlmValidations ==
    {[ok |-> FALSE, valid |-> FALSE, issues |-> <<>>]}
      \cup {[ok |-> TRUE, valid |-> v, issues |-> i] :
               v \in BOOLEAN, i \in UNION {[1..n -> Severities] : n \in 0..MaxIssues}}

ValidationArgs ==
    {[parsed_structure |-> p, all_valuesets |-> a, sql_query |-> s] :
        p \in {"dict", "None"}, a \in {"dict", "None"}, s \in {<<>>, GenSql1}}

NotValidated ==
    [success |-> FALSE, valid |-> FALSE, has_issues |-> FALSE, issues |-> <<>>,
     error |-> "not called"]

InitValidator ==
    /\ pc = "call"
    /\ \E a \in ValidationArgs, r \in LlmValidations :
          validated = [args |-> a, response |-> r, result |-> NotValidated]
    /\ SubstitutionIdle
    /\ FlattenIdle
    /\ RegistryIdle
    /\ PipelineIdle
    /\ ExtractorIdle
    /\ FetchIdle
    /\ MapperIdle
    /\ HeartbeatIdle

\* One call of validate_generated_sql_tool
validate_generated_sql_tool ==
    /\ pc = "call"
    /\ validated # <<>>
    /\ validated' = [validated EXCEPT
                        !.result = ValidateGeneratedSql(validated.args, validated.response)]
    /\ pc' = "done"
    /\ UNCHANGED <<sql_query, placeholder_mappings, sql_dialect, result, concept_ids,
                   flattened, main_extraction, main_omop, tool2_result, library_files,
                   pipelineVars, extractorVars, fetchVars, mapperVars, heartbeatVars>>

NextValidator == validate_generated_sql_tool

SpecValidator == InitValidator /\ [][NextValidator]_vars

\* C27: every result of the validation stage has valid == false exactly when
\* it contains at least one issue of severity error; this includes the results
\* for empty SQL, for a failed LLM call and for a stage that raised.
C27_InvalidIffErrorIssue ==
    pc = "done" =>
        (validated.result.valid = FALSE <=> "error" \in Range(validated.result.issues))


(***************************************************************************)
(* Frame of the substitution (specification Spec)                          *)
(***************************************************************************)

\* The occurrences, in textual order, of the tokens that are no key of the
\* registry
UnmappedOccurrences(sql) ==
    SelectSeq(FindAll(sql), LAMBDA tok : tok \notin DOMAIN placeholder_mappings)

\* C28: substitution changes only the text of occurrences of registry-mapped
\* tokens: the occurrences of every other token (a longer token that has a
\* mapped token as a prefix included) are in final_sql as they were in the SQL,
\* and an SQL text without any mapped token is returned unchanged.
C28_OnlyMappedOccurrencesChange ==
    (Done /\ "final_sql" \in result.keys)
        => /\ UnmappedOccurrences(result.final_sql) = UnmappedOccurrences(sql_query)
           /\ (MappedTokens = {} => result.final_sql = sql_query)


(***************************************************************************)
(* Individual codes of included libraries (specification SpecRegistry)     *)
(***************************************************************************)

\* The concept IDs the Concept Mapper found for a declared code: its rows carry
\* the concept_set_id map_vsac_to_omop_tool gave the code
MappedConceptIds(lib, c) == ConceptIdsFor(lib.omop, placeholder_name(c.system, c.code))

\* The registry binds a placeholder token of the library's code to ids
HasCodeEntry(registry, lib, c, ids) ==
    \E key \in {library_placeholder_key(lib.name, c.system, c.code),
                placeholder_key(c.system, c.code)} :
        key \in DOMAIN registry /\ registry[key] = ids

\* C29: every individual code declared in an included library whose code was
\* mapped to at least one OMOP concept gets a registry entry binding its
\* placeholder token to those concept IDs.
C29_LibraryCodesRegistered ==
    (pc = "done" /\ tool2_result.success)
        => \A i \in 1..Len(library_files) :
              LET lib == library_files[i]
              IN lib.ok =>
                   \A k \in 1..Len(lib.declared) :
                      LET ids == MappedConceptIds(lib, lib.declared[k])
                      IN Len(ids) > 0 =>
                           HasCodeEntry(tool2_result.placeholder_mappings, lib,
                                        lib.declared[k], ids)


(***************************************************************************)
(* The heartbeat of a translation request (specification SpecPipeline)     *)
(***************************************************************************)

\* The request of the translate tool has ended
RequestEnded == pc = "done" /\ entry = "translate"

====
